---- MODULE Spec2Model ----
(***************************************************************************)
(* Model of the WTT signaling broker (server/server.go, the actor-style   *)
(* peerManager), the server command's token wiring, the HTTP              *)
(* authorization gate, and the TCP / UDP bridges (common/bridge.go).      *)
(***************************************************************************)
EXTENDS Integers, Sequences, FiniteSets, TLC

(***************************************************************************)
(* Bounds                                                                  *)
(***************************************************************************)
\* number of websocket connections the broker serves in one run
NConn == 2
\* total number of envelopes the broker reads, first frames included
MaxReads == 3
\* the same total in the specification that is checked for liveness
LiveReads == 2
\* capacity of a host's outbound queue (make(chan []byte, 256), scaled down)
SendCap == 1

Conns == 1..NConn
NoConn == 0

(***************************************************************************)
(* Signaling envelopes (signal.Message) and their JSON form                *)
(***************************************************************************)
MessageTypeRegisterHost == "register-host"
MessageTypeOffer == "offer"
MessageTypeAnswer == "answer"
MessageTypeCandidate == "candidate"
MessageTypeError == "error"

\* identities used by the peers of the model
IDs == {"h1", "c1"}

\* a JSON member that is not present in the object
Absent == "<absent>"
\* the JSON literal null
JNull == "<null>"
\* Go's nil interface value
Nil == "<nil>"

\* Payload values of the Go side: a struct of the signal package, and the
\* generic map json.Unmarshal builds for an object when the target is interface{}
GoOfferPayload == "OfferPayload{SDP}"
GoOfferMap == "map[sdp:map[...]]"
\* the JSON object both of them are written as
JsonOfferObject == "{sdp:{...}}"

\* json.Marshal of the Payload field
MarshalPayload(p) ==
  CASE p = Nil -> JNull
    [] p \in {GoOfferPayload, GoOfferMap} -> JsonOfferObject
    [] OTHER -> p

\* json.Unmarshal of the payload member into the interface{} field
UnmarshalPayload(j) ==
  CASE j \in {Absent, JNull} -> Nil
    [] j = JsonOfferObject -> GoOfferMap
    [] OTHER -> j

\* signal.Message: the Go struct
Message(t, p, tgt, snd) == [Type |-> t, Payload |-> p, TargetID |-> tgt, SenderID |-> snd]

\* json.Unmarshal into signal.Message: a missing member or a null leaves the
\* zero value of the field
Unmarshal(f) ==
  [Type     |-> IF f.type \in {Absent, JNull} THEN "" ELSE f.type,
   Payload  |-> UnmarshalPayload(f.payload),
   TargetID |-> IF f.target_id \in {Absent, JNull} THEN "" ELSE f.target_id,
   SenderID |-> IF f.sender_id \in {Absent, JNull} THEN "" ELSE f.sender_id]

MarshalNoSender(m) ==
  [type      |-> m.Type,
   payload   |-> MarshalPayload(m.Payload),
   target_id |-> IF m.TargetID = "" THEN Absent ELSE m.TargetID,
   sender_id |-> Absent]

\* json.Marshal of signal.Message: type and payload are always written (a nil
\* payload as null), target_id and sender_id are omitted when empty
Marshal(m) ==
  [type      |-> m.Type,
   payload   |-> MarshalPayload(m.Payload),
   target_id |-> IF m.TargetID = "" THEN Absent ELSE m.TargetID,
   sender_id |-> IF m.SenderID = "" THEN Absent ELSE m.SenderID]

\* the largest envelope readPump accepts (conn.SetReadLimit), in bytes
maxMessageSize == 10240
\* a session description longer than maxMessageSize bytes
BigSdp == "sdp of 10241 bytes"

\* the JSON objects the peers put on the wire
Frames ==
  { [type |-> MessageTypeRegisterHost, payload |-> Absent, target_id |-> Absent, sender_id |-> "h1"],
    [type |-> MessageTypeRegisterHost, payload |-> JNull, target_id |-> Absent, sender_id |-> Absent],
    [type |-> MessageTypeOffer, payload |-> "sdp", target_id |-> "h1", sender_id |-> "c1"],
    [type |-> MessageTypeOffer, payload |-> "sdp", target_id |-> "", sender_id |-> "c1"],
    [type |-> MessageTypeAnswer, payload |-> "sdp", target_id |-> "c1", sender_id |-> "h1"],
    [type |-> MessageTypeCandidate, payload |-> JNull, target_id |-> "h1", sender_id |-> JNull],
    [type |-> MessageTypeOffer, payload |-> BigSdp, target_id |-> "h1", sender_id |-> "c1"] }

\* the length of a frame in bytes: the payload dominates, the other members
\* fit in a few dozen bytes
FrameSize(f) == IF f.payload = BigSdp THEN maxMessageSize + 1 ELSE 64

NoMsg == Message("", Nil, "", "")
\* no route request outstanding
NoReq == [msg |-> NoMsg, orig |-> Marshal(NoMsg)]

(***************************************************************************)
(* State of the broker                                                     *)
(***************************************************************************)
VARIABLES
  cstate,      \* position of each connection's handler goroutine
  isHost,      \* the connection was promoted to a host connection
  connID,      \* hostID / msg.SenderID of the first envelope
  pending,     \* the envelope of the route request the handler is blocked on
  sockOpen,    \* the websocket has not been Close()d by the broker
  peerClosed,  \* the remote end has closed the connection
  peers,       \* pm.peers: identity -> connection of its safeConnection
  send,        \* safeConnection.send of each connection
  sendState,   \* "none", "open" or "closed" (close(safeConn.send))
  wp,          \* writePump of each connection: "none", "run", "stopped"
  wire,        \* log of the frames written on each connection (dup: history,
               \* the envelope was routed after a duplicate of its target was refused)
  nread,       \* envelopes read by read workers so far
  rejected,    \* history: connections refused as duplicate registrations
  evicted,     \* history: identities whose entry was removed
  offered,     \* history: host connection that was handed this client's offer
  dropped      \* history: connections that had an envelope dropped at a full queue

brokerVars == <<cstate, isHost, connID, pending, sockOpen, peerClosed, peers,
                send, sendState, wp, wire, nread, rejected, evicted, offered, dropped>>

(***************************************************************************)
(* State of the HTTP handler of Run (authorization and upgrade)            *)
(***************************************************************************)
VARIABLES
  validTokens,     \* the token list Run was started with
  allowedOrigins,  \* the origin list Run was started with
  hreq,            \* the handshake request of each connection
  status           \* its HTTP status: 0 (none yet), 401, 403, 101 (upgraded)

authVars == <<validTokens, allowedOrigins, hreq, status>>

(***************************************************************************)
(* State of the server command (cobra flags, viper)                        *)
(***************************************************************************)
VARIABLES
  cmdArgs,   \* the flags given on the command line
  cfgFile,   \* the keys the configuration file sets
  environ,   \* the keys the WTT_ environment variables set
  pcCmd      \* "init" before serverCmd.Run, "running" once server.Run was called

cmdVars == <<cmdArgs, cfgFile, environ, pcCmd>>

(***************************************************************************)
(* State of a TCP bridge (BridgeStream)                                    *)
(***************************************************************************)
VARIABLES
  appOut,        \* bytes the local application has written to its connection
  rd,            \* how many of them local.Read has returned
  appEOF,        \* the local application has closed its side
  buf,           \* the read buffer of the pump loop
  nbuf,          \* n of the last local.Read
  pcLoop,        \* the pump loop: "read", "send" or "done"
  dcSent,        \* frames passed to dc.Send, in order
  dcRecv,        \* frames delivered to the OnMessage handler, in order
  localWritten,  \* bytes written to the local connection
  localClosed,   \* local.Close() was called
  dcClosed,      \* the data channel is closed
  closerRuns     \* history: how often closer() ran; each run calls
                 \* local.Close() and dc.Close()

streamVars == <<appOut, rd, appEOF, buf, nbuf, pcLoop, dcSent, dcRecv,
                localWritten, localClosed, dcClosed, closerRuns>>

(***************************************************************************)
(* State of a UDP bridge (BridgePacket)                                    *)
(***************************************************************************)
VARIABLES
  returnAddr,   \* the captured variable returnAddr
  pcR,          \* the local->remote goroutine: "read", "check", "store", "send", "done"
  pkt,          \* n and addr of the last pconn.ReadFrom
  firstAddr,    \* history: source address of the first packet read
  srcSeen,      \* history: source addresses of the packets read
  writes,       \* history: datagrams written with pconn.WriteTo
  nPkt,         \* packets read so far
  nMsg,         \* data-channel messages handled so far
  pconnClosed,  \* pconn.Close() was called
  udcClosed     \* the data channel is closed

packetVars == <<returnAddr, pcR, pkt, firstAddr, srcSeen, writes, nPkt, nMsg,
                pconnClosed, udcClosed>>

(***************************************************************************)
(* An envelope that is encoded and decoded                                 *)
(***************************************************************************)
VARIABLES
  env,   \* the signal.Message that is encoded
  enc,   \* the JSON object json.Marshal produced
  dec,   \* the signal.Message json.Unmarshal produced from it
  pcJson \* "new", "encoded" or "decoded"

jsonVars == <<env, enc, dec, pcJson>>

(***************************************************************************)
(* State of the mutex-based broker (peerManager with sync.RWMutex)         *)
(***************************************************************************)
VARIABLES
  mxPeers,    \* pm.peers[id] for the one identity used: a queue or NoQueue
  mxQueue,    \* each safeConnection.send: "unmade", "open" or "closed"
  mxLen,      \* number of messages buffered in each queue
  mxHost,     \* each host connection: "new", "reading", "done"
  mxSafe,     \* the queue made for each host connection
  mxRouter,   \* each routing goroutine: "idle", "got", "done"
  mxTarget,   \* the target getHost returned to it
  mxRoutes,   \* envelopes routed so far
  mxPanic     \* the process panicked

mutexVars == <<mxPeers, mxQueue, mxLen, mxHost, mxSafe, mxRouter, mxTarget,
               mxRoutes, mxPanic>>

(***************************************************************************)
(* State of the outer loop of host.Run / client.Run and of its sessions    *)
(***************************************************************************)
VARIABLES
  role,          \* "host" or "client"
  attempt,       \* var attempt int
  pcRun,         \* "top", "dial", "session", "ended", "backoff", "returned"
  cancelled,     \* appCtx is done (cancelApp was called)
  backoff,       \* the variable backoff: a 64-bit duration in nanoseconds
  dialled,       \* history: Dial was called
  cancelAt,      \* history: position of the loop when cancelApp was called
  lateDial,      \* history: a Dial was started after cancelApp was called
  connectedOnce, \* listenerOnce of the current client session has fired
  managePc,      \* a spawned manageTCPConnections: "none" or "spawned"
  manageOf,      \* the attempt whose session spawned it
  listening,     \* the attempt whose session holds the local listener, or 0
  fatal          \* glog.Fatalf ended the process

runVars == <<role, attempt, pcRun, cancelled, backoff, dialled, cancelAt, lateDial,
             connectedOnce, managePc, manageOf, listening, fatal>>

(***************************************************************************)
(* State of one client process (client.Run, negotiate, tunnel)             *)
(***************************************************************************)
VARIABLES
  clPc,       \* Run: "negotiate", "tunnel", "serving" or "failed"
  wsLost,     \* the broker connection is lost
  readerPc,   \* the reader goroutine of negotiate: "read" or "done"
  peerState,  \* the peer connection: "connecting", "connected", "closed"
  chanState,  \* the data channel "wtt": "connecting", "open", "closed"
  lostOpen,   \* history: the reader closed the peer connection while the
              \* data channel was open
  acceptPc,   \* the accept loop of tunnel: "off", "accept", "bridge"
  lconn,      \* each local connection: "none", "queued", "bridged", "closed"
  chanOf,     \* history: the data channel each local connection was bridged on
  served      \* history: bytes of the local connection went out on its channel

clientVars == <<clPc, wsLost, readerPc, peerState, chanState, lostOpen, acceptPc,
                lconn, chanOf, served>>

(***************************************************************************)
(* State of the task pm.run and of the requests waiting for it             *)
(***************************************************************************)
VARIABLES
  acReq,      \* the request each handler is blocked on
  acPeers,    \* the identities in pm.peers
  acRun,      \* pm.run: "select" or "write" (inside req.sender.WriteJSON)
  acWriteTo,  \* the connection pm.run is writing to
  acStalled,  \* the remote end of the connection does not read any more
  acErrors    \* history: connections pm.run wrote an error envelope to

actorVars == <<acReq, acPeers, acRun, acWriteTo, acStalled, acErrors>>

(***************************************************************************)
(* State of the liveness deadline of one registered host connection        *)
(***************************************************************************)
VARIABLES
  tmNow,       \* the time, in seconds since readPump started
  tmDeadline,  \* the read deadline of the connection
  tmLast,      \* when the last frame (envelope or pong) was received
  tmNextPing,  \* when the ticker of writePump fires next
  tmState,     \* "open", or "lapsed" once a read failed on the deadline
  tmPonged    \* history: the pong handler has run

timerVars == <<tmNow, tmDeadline, tmLast, tmNextPing, tmState, tmPonged>>

(***************************************************************************)
(* State of one host session (host.Run, wait, handleOffer, handleCandidate)*)
(***************************************************************************)
VARIABLES
  hMsg,      \* the envelopes wait has taken from msgChan, in order
  hStep,     \* where the goroutine started for each of them is
  hTaskPc,   \* the peer connection that goroutine holds (pc)
  hIndex,    \* peerConnections: client identity -> peer connection
  hPcOwner,  \* the clientID each peer connection was created for
  hPcState,  \* the connection state of each peer connection
  hPcCb,     \* OnConnectionStateChange has been installed on it
  hApplied,  \* the candidate envelopes AddICECandidate was called with on it
  hCancelled \* wait has taken <-ctx.Done() and returned

hostVars == <<hMsg, hStep, hTaskPc, hIndex, hPcOwner, hPcState, hPcCb, hApplied,
              hCancelled>>

(***************************************************************************)
(* State of one call of the client's negotiate (client/client.go)          *)
(***************************************************************************)
VARIABLES
  ngPc,      \* negotiate: "select", "check", or returned: "ok", "failed", "timeout"
  ngState,   \* pc.ConnectionState()
  ngCloses,  \* how often close(connected) was executed; the second one panics
  ngTimeout, \* timeout.Done() is closed
  ngFirst,   \* history: what came first, "connected" or "timeout" ("none" so far)
  ngReader,  \* the reader goroutine: "read" or "done"
  ngRemote,  \* SetRemoteDescription was called with the answer
  ngCands    \* candidates of the host given to AddICECandidate

negVars == <<ngPc, ngState, ngCloses, ngTimeout, ngFirst, ngReader, ngRemote, ngCands>>

(***************************************************************************)
(* State of one datagram bridge: common.BridgePacket or a proxyTrafficUDP  *)
(***************************************************************************)
VARIABLES
  pxKind,   \* which of the three bridges runs
  pxLoop,   \* its pump goroutine: "off", "read", "send" or "done"
  pxLocal,  \* the local endpoint: "open" or "closed"
  pxDc,     \* the data channel: "open" or "closed"
  pxFail,   \* history: the first failure, "none", "read", "send" or "write"
  pxN,      \* datagrams read from the local endpoint
  pxM       \* messages delivered to the OnMessage handler

proxyVars == <<pxKind, pxLoop, pxLocal, pxDc, pxFail, pxN, pxM>>

(***************************************************************************)
(* State of the host's peerConnectionManager (host/host.go, handleSignal)  *)
(***************************************************************************)
VARIABLES
  hmPos,   \* where the read loop of handleSignal is
  hmN,     \* envelopes the loop has read
  hmCur,   \* the peer connection of the offer being handled
  hmPc,    \* each peer connection: "none", "live", "failed" (its state
           \* callback is due), "deleting" (the callback is in delete), "gone"
  hmIce,   \* candidates each peer connection has gathered and sent; -1
           \* before gathering starts
  hmIceW   \* the OnICECandidate callback of it is inside WriteJSON

managerVars == <<hmPos, hmN, hmCur, hmPc, hmIce, hmIceW>>

(***************************************************************************)
(* State of the broker of HandleConnection (server, connM)                 *)
(***************************************************************************)
VARIABLES
  hcState, \* each upgraded connection: "new", "open" (registered), "closed"
  hcId,    \* the senderID of its initial message, "" before it is read
  connM,   \* the registry: identity -> connection, NoConn for no entry
  hcGot    \* envelopes written to each connection

handleVars == <<hcState, hcId, connM, hcGot>>

\* the parts of the state added at the end
lastVars == <<negVars, proxyVars, managerVars, handleVars>>

\* the parts of the state added last
lateVars == <<actorVars, timerVars, hostVars, lastVars>>

\* the parts of the state added after the broker, the gate, the command and
\* the bridges
extVars == <<jsonVars, mutexVars, runVars, clientVars, lateVars>>

vars == <<brokerVars, authVars, cmdVars, streamVars, packetVars, extVars>>

nonBroker == <<authVars, cmdVars, streamVars, packetVars, extVars>>

\* pm.peers[id] with the "ok" result folded in
Lookup(id) == IF id \in DOMAIN peers THEN peers[id] ELSE NoConn

\* newPeerManager and no connection accepted yet
InitBroker ==
  /\ cstate = [c \in Conns |-> "idle"]
  /\ isHost = [c \in Conns |-> FALSE]
  /\ connID = [c \in Conns |-> ""]
  /\ pending = [c \in Conns |-> NoReq]
  /\ sockOpen = [c \in Conns |-> FALSE]
  /\ peerClosed = [c \in Conns |-> FALSE]
  /\ peers = [i \in IDs |-> NoConn]
  /\ send = [c \in Conns |-> <<>>]
  /\ sendState = [c \in Conns |-> "none"]
  /\ wp = [c \in Conns |-> "none"]
  /\ wire = [c \in Conns |-> <<>>]
  /\ nread = 0
  /\ rejected = {}
  /\ evicted = {}
  /\ offered = [c \in Conns |-> NoConn]
  /\ dropped = {}

\* a request that was not made yet
NoRequest == [hdr |-> <<>>, origin |-> ""]

\* Run started without tokens and with the default origin list; no request yet
InitNoAuth ==
  /\ validTokens = <<>>
  /\ allowedOrigins = <<"*">>
  /\ hreq = [c \in Conns |-> NoRequest]
  /\ status = [c \in Conns |-> 0]

\* a flag, key or variable that is not given
Unset == [set |-> FALSE, val |-> <<>>]
Given(v) == [set |-> TRUE, val |-> v]

\* the viper keys of the server command
KeyValidTokens == "server.valid-tokens"
KeyAuthValidTokens == "server.auth.valid-tokens"
KeyAllowedOrigins == "server.allowed-origins"
ViperKeys == {KeyValidTokens, KeyAuthValidTokens, KeyAllowedOrigins}

\* the flags of the server command that the model follows
FlagNames == {"valid-tokens", "allowed-origins"}

\* the server command is not part of the run
InitNoCmd ==
  /\ cmdArgs = [f \in FlagNames |-> Unset]
  /\ cfgFile = [k \in ViperKeys |-> Unset]
  /\ environ = [k \in ViperKeys |-> Unset]
  /\ pcCmd = "running"

\* size of the read buffer of the bridges (make([]byte, 16384), scaled down)
BufSize == 2
\* bytes the local application writes in one run
MaxBytes == 3
\* data-channel messages that arrive in one run
MaxFrames == 2

\* byte values; 0 is the initial content of a buffer
Bytes == {1, 2}

\* BridgeStream entered: handlers installed, loop about to read
InitStream ==
  /\ appOut = <<>>
  /\ rd = 0
  /\ appEOF = FALSE
  /\ buf = [i \in 1..BufSize |-> 0]
  /\ nbuf = 0
  /\ pcLoop = "read"
  /\ dcSent = <<>>
  /\ dcRecv = <<>>
  /\ localWritten = <<>>
  /\ localClosed = FALSE
  /\ dcClosed = FALSE
  /\ closerRuns = 0

\* UDP source addresses of the local side
Addrs == {"a1", "a2"}
\* the nil interface value of returnAddr
NilAddr == [st |-> "nil", a |-> ""]

\* BridgePacket entered: goroutine started, handlers installed
InitPacket ==
  /\ returnAddr = NilAddr
  /\ pcR = "read"
  /\ pkt = [n |-> 0, addr |-> ""]
  /\ firstAddr = ""
  /\ srcSeen = {}
  /\ writes = <<>>
  /\ nPkt = 0
  /\ nMsg = 0
  /\ pconnClosed = FALSE
  /\ udcClosed = FALSE

\* no envelope under test
InitNoJson ==
  /\ env = NoMsg
  /\ enc = Marshal(NoMsg)
  /\ dec = NoMsg
  /\ pcJson = "decoded"

\* host connections and routing goroutines of the mutex-based broker
MxHosts == 2
MxRouters == 2
\* envelopes routed in one run
MxMaxRoutes == 3
NoQueue == 0

\* newPeerManager of the mutex-based broker
InitMutex ==
  /\ mxPeers = NoQueue
  /\ mxQueue = [q \in 1..MxHosts |-> "unmade"]
  /\ mxLen = [q \in 1..MxHosts |-> 0]
  /\ mxHost = [h \in 1..MxHosts |-> "new"]
  /\ mxSafe = [h \in 1..MxHosts |-> NoQueue]
  /\ mxRouter = [r \in 1..MxRouters |-> "idle"]
  /\ mxTarget = [r \in 1..MxRouters |-> NoQueue]
  /\ mxRoutes = 0
  /\ mxPanic = FALSE

\* a 64-bit integer: eight digits of base 256, least significant first
Int64FromInt(m) == [i \in 1..8 |-> IF i = 1 THEN m ELSE 0]
Zero64 == Int64FromInt(0)

\* Run before its loop, for one of the two roles
InitLoop ==
  /\ role \in {"host", "client"}
  /\ attempt = 0
  /\ pcRun = "top"
  /\ cancelled = FALSE
  /\ backoff = Zero64
  /\ dialled = FALSE
  /\ cancelAt = "none"
  /\ lateDial = FALSE
  /\ connectedOnce = FALSE
  /\ managePc = "none"
  /\ manageOf = 0
  /\ listening = 0
  /\ fatal = FALSE

\* no role process running
InitNoLoop ==
  /\ role = "host"
  /\ attempt = 0
  /\ pcRun = "returned"
  /\ cancelled = FALSE
  /\ backoff = Zero64
  /\ dialled = FALSE
  /\ cancelAt = "none"
  /\ lateDial = FALSE
  /\ connectedOnce = FALSE
  /\ managePc = "none"
  /\ manageOf = 0
  /\ listening = 0
  /\ fatal = FALSE

\* local connections made to the client's listener in one run
NLocal == 3
Locals == 1..NLocal
\* no data channel; the channel negotiate creates has number 1
NoChan == 0
WttChan == 1

\* client.Run inside negotiate: offer sent, reader goroutine started
InitClient ==
  /\ clPc = "negotiate"
  /\ wsLost = FALSE
  /\ readerPc = "read"
  /\ peerState = "connecting"
  /\ chanState = "connecting"
  /\ lostOpen = FALSE
  /\ acceptPc = "off"
  /\ lconn = [l \in Locals |-> "none"]
  /\ chanOf = [l \in Locals |-> NoChan]
  /\ served = [l \in Locals |-> FALSE]

\* no client process
InitNoClient ==
  /\ clPc = "failed"
  /\ wsLost = FALSE
  /\ readerPc = "done"
  /\ peerState = "closed"
  /\ chanState = "closed"
  /\ lostOpen = FALSE
  /\ acceptPc = "off"
  /\ lconn = [l \in Locals |-> "none"]
  /\ chanOf = [l \in Locals |-> NoChan]
  /\ served = [l \in Locals |-> FALSE]

\* a request that was not made
NoActorReq == [kind |-> "none", id |-> ""]

\* newPeerManager: empty registry, pm.run at its select, no request made
InitActor ==
  /\ acReq = [c \in Conns |-> NoActorReq]
  /\ acPeers = {}
  /\ acRun = "select"
  /\ acWriteTo = NoConn
  /\ acStalled = [c \in Conns |-> FALSE]
  /\ acErrors = {}

\* seconds
pongWait == 60
pingPeriod == (pongWait * 9) \div 10

\* readPump has just set the first deadline and writePump its ticker
InitTimer ==
  /\ tmNow = 0
  /\ tmDeadline = pongWait
  /\ tmLast = 0
  /\ tmNextPing = pingPeriod
  /\ tmState = "open"
  /\ tmPonged = FALSE

\* envelopes a host session takes from the broker, peer connections it creates
MaxHostMsgs == 3
MaxPcs == 2
\* goroutines of wait that have not returned, at any one time
MaxTasks == 2
HostMsgIds == 1..MaxHostMsgs
Pcs == 1..MaxPcs
NoPc == 0
HostClients == {"c1", "c2"}
NoHostMsg == [kind |-> "none", from |-> ""]

\* wait has started its reader goroutine; peerConnections is empty
InitHost ==
  /\ hMsg = [i \in HostMsgIds |-> NoHostMsg]
  /\ hStep = [i \in HostMsgIds |-> "none"]
  /\ hTaskPc = [i \in HostMsgIds |-> NoPc]
  /\ hIndex = [x \in HostClients |-> NoPc]
  /\ hPcOwner = [p \in Pcs |-> ""]
  /\ hPcState = [p \in Pcs |-> "none"]
  /\ hPcCb = [p \in Pcs |-> FALSE]
  /\ hApplied = [p \in Pcs |-> {}]
  /\ hCancelled = FALSE

\* negotiate is past the send of the offer: the reader goroutine runs and the
\* select waits
InitNeg ==
  /\ ngPc = "select"
  /\ ngState = "new"
  /\ ngCloses = 0
  /\ ngTimeout = FALSE
  /\ ngFirst = "none"
  /\ ngReader = "read"
  /\ ngRemote = FALSE
  /\ ngCands = 0

\* the three datagram bridges of the repository
BridgePacketKind == "BridgePacket"
HostUDP == "host.proxyTrafficUDP"
ClientUDP == "client.proxyTrafficUDP"
PxKinds == {BridgePacketKind, HostUDP, ClientUDP}

NoBridge == "none"

\* no bridge has been started
InitProxy ==
  /\ pxKind = NoBridge
  /\ pxLoop = "off"
  /\ pxLocal = "open"
  /\ pxDc = "open"
  /\ pxFail = "none"
  /\ pxN = 0
  /\ pxM = 0

\* runHostSession has started handleSignal; peerCons is empty
InitManager ==
  /\ hmPos = "read"
  /\ hmN = 0
  /\ hmCur = NoPc
  /\ hmPc = [p \in Pcs |-> "none"]
  /\ hmIce = [p \in Pcs |-> -1]
  /\ hmIceW = [p \in Pcs |-> FALSE]

\* connections the broker of HandleConnection accepts
MaxSockets == 3
Sockets == 1..MaxSockets

\* Run: connM is new; every connection is upgraded and its handler started
InitHandle ==
  /\ hcState = [c \in Sockets |-> "new"]
  /\ hcId = [c \in Sockets |-> ""]
  /\ connM = [i \in IDs |-> NoConn]
  /\ hcGot = [c \in Sockets |-> 0]

InitLast == InitNeg /\ InitProxy /\ InitManager /\ InitHandle

InitLate == InitActor /\ InitTimer /\ InitHost /\ InitLast

\* the added parts at rest
InitExt == InitNoJson /\ InitMutex /\ InitNoLoop /\ InitNoClient /\ InitLate

\* the broker, with every other part at rest
InitRest == InitNoAuth /\ InitNoCmd /\ InitStream /\ InitPacket

Init == InitBroker /\ InitRest /\ InitExt

\* conn.WriteJSON / conn.WriteMessage on connection c by task "by": the call is
\* logged; it succeeds iff the socket is still open on the broker's side
WriteLog(c, f, orig, by, dup) ==
  [wire EXCEPT ![c] = Append(@, [frame |-> f, orig |-> orig, by |-> by,
                                 ok |-> sockOpen[c], dup |-> dup])]

\* Run's handler after a successful upgrade: go pm.handleConnection(conn);
\* connections are numbered in the order in which their first read returns: a
\* connection that waits for its first envelope does nothing else, so its
\* upgrade is taken when the earlier connections are past theirs
Upgrade(c) ==
  /\ cstate[c] = "idle"
  /\ \A d \in Conns : d < c => cstate[d] \notin {"idle", "first"}
  /\ cstate' = [cstate EXCEPT ![c] = "first"]
  /\ sockOpen' = [sockOpen EXCEPT ![c] = TRUE]
  /\ UNCHANGED <<isHost, connID, pending, peerClosed, peers, send, sendState,
                 wp, wire, nread, rejected, evicted, offered, dropped>>
  /\ UNCHANGED nonBroker

\* the remote end closes its side of the connection; followed for registered
\* hosts, the only connections with a write worker: for any other connection
\* the close shows as the failure of its next read (ReadPumpError)
PeerClose(c) ==
  /\ cstate[c] \in {"read", "routeWait"}
  /\ isHost[c]
  /\ ~peerClosed[c]
  /\ peerClosed' = [peerClosed EXCEPT ![c] = TRUE]
  /\ UNCHANGED <<cstate, isHost, connID, pending, sockOpen, peers, send,
                 sendState, wp, wire, nread, rejected, evicted, offered, dropped>>
  /\ UNCHANGED nonBroker

\* handleConnection: the first ReadJSON fails (deadline, close, bad frame)
FirstReadError(c) ==
  /\ cstate[c] = "first"
  /\ cstate' = [cstate EXCEPT ![c] = "done"]
  /\ sockOpen' = [sockOpen EXCEPT ![c] = FALSE]
  /\ UNCHANGED <<isHost, connID, pending, peerClosed, peers, send, sendState,
                 wp, wire, nread, rejected, evicted, offered, dropped>>
  /\ UNCHANGED nonBroker

\* handleConnection: the first envelope decides the role of the connection; no
\* read limit is set on the connection before this read
FirstRead(c) ==
  /\ cstate[c] = "first"
  /\ nread < MaxReads
  /\ nread' = nread + 1
  /\ \E f \in Frames :
       LET msg == Unmarshal(f) IN
       IF msg.Type = MessageTypeRegisterHost
       THEN IF msg.SenderID = ""
            THEN /\ cstate' = [cstate EXCEPT ![c] = "done"]
                 /\ sockOpen' = [sockOpen EXCEPT ![c] = FALSE]
                 /\ UNCHANGED <<connID, pending>>
            ELSE /\ cstate' = [cstate EXCEPT ![c] = "addWait"]
                 /\ connID' = [connID EXCEPT ![c] = msg.SenderID]
                 /\ UNCHANGED <<sockOpen, pending>>
       ELSE /\ cstate' = [cstate EXCEPT ![c] = "routeWait"]
            /\ connID' = [connID EXCEPT ![c] = msg.SenderID]
            /\ pending' = [pending EXCEPT ![c] = [msg |-> msg, orig |-> f]]
            /\ UNCHANGED sockOpen
  /\ UNCHANGED <<isHost, peerClosed, peers, send, sendState, wp, wire,
                 rejected, evicted, offered, dropped>>
  /\ UNCHANGED nonBroker

AddHostReplace(c) ==
  /\ cstate[c] = "addWait"
  /\ peers' = [peers EXCEPT ![connID[c]] = c]
  /\ sendState' = [sendState EXCEPT ![c] = "open"]
  /\ send' = [send EXCEPT ![c] = <<>>]
  /\ wp' = [wp EXCEPT ![c] = "run"]
  /\ isHost' = [isHost EXCEPT ![c] = TRUE]
  /\ cstate' = [cstate EXCEPT ![c] = "read"]
  /\ UNCHANGED <<sockOpen, rejected>>
  /\ UNCHANGED <<connID, pending, peerClosed, wire, nread, evicted, offered, dropped>>
  /\ UNCHANGED nonBroker

\* pm.run, case addHost, with the handler's reaction to the response
AddHost(c) ==
  /\ cstate[c] = "addWait"
  /\ IF Lookup(connID[c]) # NoConn
     THEN /\ cstate' = [cstate EXCEPT ![c] = "done"]
          /\ sockOpen' = [sockOpen EXCEPT ![c] = FALSE]
          /\ rejected' = rejected \cup {c}
          /\ UNCHANGED <<peers, send, sendState, wp, isHost>>
     ELSE /\ peers' = [peers EXCEPT ![connID[c]] = c]
          /\ sendState' = [sendState EXCEPT ![c] = "open"]
          /\ send' = [send EXCEPT ![c] = <<>>]
          /\ wp' = [wp EXCEPT ![c] = "run"]
          /\ isHost' = [isHost EXCEPT ![c] = TRUE]
          /\ cstate' = [cstate EXCEPT ![c] = "read"]
          /\ UNCHANGED <<sockOpen, rejected>>
  /\ UNCHANGED <<connID, pending, peerClosed, wire, nread, evicted, offered, dropped>>
  /\ UNCHANGED nonBroker

ReadPumpReadPromote(c) ==
  /\ cstate[c] = "read"
  /\ sockOpen[c]
  /\ ~peerClosed[c]
  /\ nread < MaxReads
  /\ nread' = nread + 1
  /\ \E f \in {g \in Frames : FrameSize(g) <= maxMessageSize} :
       LET msg == Unmarshal(f) IN
       IF msg.Type = MessageTypeRegisterHost /\ msg.SenderID # "" /\ ~isHost[c]
       THEN /\ cstate' = [cstate EXCEPT ![c] = "addWait"]
            /\ connID' = [connID EXCEPT ![c] = msg.SenderID]
            /\ UNCHANGED pending
       ELSE /\ cstate' = [cstate EXCEPT ![c] = "routeWait"]
            /\ pending' = [pending EXCEPT ![c] = [msg |-> msg, orig |-> f]]
            /\ UNCHANGED connID
  /\ UNCHANGED <<isHost, sockOpen, peerClosed, peers, send, sendState,
                 wp, wire, rejected, evicted, offered, dropped>>
  /\ UNCHANGED nonBroker

\* readPump: ReadJSON returns the next envelope, which is handed to the router;
\* the read limit set at the head of readPump makes a longer frame an error
ReadPumpRead(c) ==
  /\ cstate[c] = "read"
  /\ sockOpen[c]
  /\ ~peerClosed[c]
  /\ nread < MaxReads
  /\ \E f \in {g \in Frames : FrameSize(g) <= maxMessageSize} :
       pending' = [pending EXCEPT ![c] = [msg |-> Unmarshal(f), orig |-> f]]
  /\ cstate' = [cstate EXCEPT ![c] = "routeWait"]
  /\ nread' = nread + 1
  /\ UNCHANGED <<isHost, connID, sockOpen, peerClosed, peers, send, sendState,
                 wp, wire, rejected, evicted, offered, dropped>>
  /\ UNCHANGED nonBroker

ReadPumpErrorNoEvict(c) ==
  /\ cstate[c] = "read"
  /\ cstate' = [cstate EXCEPT ![c] = "done"]
  /\ sockOpen' = [sockOpen EXCEPT ![c] = FALSE]
  /\ UNCHANGED <<isHost, connID, pending, peerClosed, peers, send, sendState,
                 wp, wire, nread, rejected, evicted, offered, dropped>>
  /\ UNCHANGED nonBroker

\* readPump: ReadJSON fails (peer closed, deadline lapsed, frame too large,
\* socket closed by the write worker); the deferred call runs
ReadPumpError(c) ==
  /\ cstate[c] = "read"
  /\ IF isHost[c]
     THEN /\ cstate' = [cstate EXCEPT ![c] = "removeWait"]
          /\ UNCHANGED sockOpen
     ELSE /\ cstate' = [cstate EXCEPT ![c] = "done"]
          /\ sockOpen' = [sockOpen EXCEPT ![c] = FALSE]
  /\ UNCHANGED <<isHost, connID, pending, peerClosed, peers, send, sendState,
                 wp, wire, nread, rejected, evicted, offered, dropped>>
  /\ UNCHANGED nonBroker

RemoveHostNoClose(c) ==
  /\ cstate[c] = "removeWait"
  /\ cstate' = [cstate EXCEPT ![c] = "done"]
  /\ IF Lookup(connID[c]) # NoConn
     THEN /\ peers' = [peers EXCEPT ![connID[c]] = NoConn]
          /\ evicted' = evicted \cup {connID[c]}
          /\ UNCHANGED sendState
     ELSE UNCHANGED <<sendState, peers, evicted>>
  /\ UNCHANGED <<isHost, connID, pending, sockOpen, peerClosed, send, wp, wire,
                 nread, rejected, offered, dropped>>
  /\ UNCHANGED nonBroker

\* pm.run, case removeHost
RemoveHost(c) ==
  /\ cstate[c] = "removeWait"
  /\ cstate' = [cstate EXCEPT ![c] = "done"]
  /\ IF Lookup(connID[c]) # NoConn
     THEN /\ sendState' = [sendState EXCEPT ![peers[connID[c]]] = "closed"]
          /\ peers' = [peers EXCEPT ![connID[c]] = NoConn]
          /\ evicted' = evicted \cup {connID[c]}
     ELSE UNCHANGED <<sendState, peers, evicted>>
  /\ UNCHANGED <<isHost, connID, pending, sockOpen, peerClosed, send, wp, wire,
                 nread, rejected, offered, dropped>>
  /\ UNCHANGED nonBroker

\* the error envelope of the router
ErrText(targetID) ==
  IF targetID = "h1" THEN "target host 'h1' not found" ELSE "target host 'c1' not found"

ErrRsp(msg) == Message(MessageTypeError, ErrText(msg.TargetID), msg.SenderID, "")

RouteMessageSilent(c) ==
  /\ cstate[c] = "routeWait"
  /\ cstate' = [cstate EXCEPT ![c] = "read"]
  /\ pending' = [pending EXCEPT ![c] = NoReq]
  /\ LET msg == pending[c].msg
         targetID == msg.TargetID
         target == Lookup(targetID)
     IN IF targetID = "" \/ target = NoConn
        THEN UNCHANGED <<wire, send, offered, dropped>>
        ELSE IF Len(send[target]) < SendCap
        THEN /\ send' = [send EXCEPT ![target] =
                           Append(@, [b |-> Marshal(msg), orig |-> pending[c].orig,
                                      dup |-> \E r \in rejected : connID[r] = targetID])]
             /\ offered' = IF msg.Type = MessageTypeOffer /\ ~isHost[c]
                           THEN [offered EXCEPT ![c] = target] ELSE offered
             /\ UNCHANGED <<wire, dropped>>
        ELSE /\ dropped' = dropped \cup {c}
             /\ UNCHANGED <<wire, send, offered>>
  /\ UNCHANGED <<isHost, connID, sockOpen, peerClosed, peers, sendState, wp,
                 nread, rejected, evicted>>
  /\ UNCHANGED nonBroker

RouteMessageDropOldest(c) ==
  /\ cstate[c] = "routeWait"
  /\ cstate' = [cstate EXCEPT ![c] = "read"]
  /\ pending' = [pending EXCEPT ![c] = NoReq]
  /\ LET msg == pending[c].msg
         targetID == msg.TargetID
         target == Lookup(targetID)
         item == [b |-> Marshal(msg), orig |-> pending[c].orig,
                  dup |-> \E r \in rejected : connID[r] = targetID]
     IN IF targetID = ""
        THEN UNCHANGED <<wire, send, offered, dropped>>
        ELSE IF target = NoConn
        THEN /\ wire' = WriteLog(c, Marshal(ErrRsp(msg)), pending[c].orig, "run", FALSE)
             /\ UNCHANGED <<send, offered, dropped>>
        ELSE /\ send' = [send EXCEPT ![target] =
                           IF Len(@) < SendCap THEN Append(@, item)
                           ELSE Append(Tail(@), item)]
             /\ offered' = IF msg.Type = MessageTypeOffer /\ ~isHost[c]
                           THEN [offered EXCEPT ![c] = target] ELSE offered
             /\ dropped' = IF Len(send[target]) < SendCap THEN dropped
                           ELSE dropped \cup {c}
             /\ UNCHANGED wire
  /\ UNCHANGED <<isHost, connID, sockOpen, peerClosed, peers, sendState, wp,
                 nread, rejected, evicted>>
  /\ UNCHANGED nonBroker

\* pm.run, case routeMessage, with the handler's return to its read loop
RouteMessage(c) ==
  /\ cstate[c] = "routeWait"
  /\ cstate' = [cstate EXCEPT ![c] = "read"]
  /\ pending' = [pending EXCEPT ![c] = NoReq]
  /\ LET msg == pending[c].msg
         targetID == msg.TargetID
         target == Lookup(targetID)
     IN IF targetID = ""
        THEN UNCHANGED <<wire, send, offered, dropped>>
        ELSE IF target = NoConn
        THEN /\ wire' = WriteLog(c, Marshal(ErrRsp(msg)), pending[c].orig, "run", FALSE)
             /\ UNCHANGED <<send, offered, dropped>>
        ELSE IF Len(send[target]) < SendCap
        THEN /\ send' = [send EXCEPT ![target] =
                           Append(@, [b |-> Marshal(msg), orig |-> pending[c].orig,
                                      dup |-> \E r \in rejected : connID[r] = targetID])]
             /\ offered' = IF msg.Type = MessageTypeOffer /\ ~isHost[c]
                           THEN [offered EXCEPT ![c] = target] ELSE offered
             /\ UNCHANGED <<wire, dropped>>
        ELSE /\ dropped' = dropped \cup {c}
             /\ UNCHANGED <<wire, send, offered>>
  /\ UNCHANGED <<isHost, connID, sockOpen, peerClosed, peers, sendState, wp,
                 nread, rejected, evicted>>
  /\ UNCHANGED nonBroker

WritePumpWriteKeep(c) ==
  /\ wp[c] = "run"
  /\ send[c] # <<>>
  /\ sockOpen[c]
  /\ wire' = WriteLog(c, Head(send[c]).b, Head(send[c]).orig, "pump", Head(send[c]).dup)
  /\ Len(wire[c]) < MaxReads
  /\ UNCHANGED <<cstate, isHost, connID, pending, sockOpen, peerClosed, peers, send,
                 sendState, wp, nread, rejected, evicted, offered, dropped>>
  /\ UNCHANGED nonBroker

\* writePump: a queued message is written to the socket
WritePumpWrite(c) ==
  /\ wp[c] = "run"
  /\ send[c] # <<>>
  /\ sockOpen[c]
  /\ wire' = WriteLog(c, Head(send[c]).b, Head(send[c]).orig, "pump", Head(send[c]).dup)
  /\ send' = [send EXCEPT ![c] = Tail(@)]
  /\ UNCHANGED <<cstate, isHost, connID, pending, sockOpen, peerClosed, peers,
                 sendState, wp, nread, rejected, evicted, offered, dropped>>
  /\ UNCHANGED nonBroker

\* writePump: WriteMessage fails; the pump returns and closes the socket
WritePumpError(c) ==
  /\ wp[c] = "run"
  /\ send[c] # <<>>
  /\ peerClosed[c]
  /\ send' = [send EXCEPT ![c] = Tail(@)]
  /\ wp' = [wp EXCEPT ![c] = "stopped"]
  /\ sockOpen' = [sockOpen EXCEPT ![c] = FALSE]
  /\ UNCHANGED <<cstate, isHost, connID, pending, peerClosed, peers, sendState,
                 wire, nread, rejected, evicted, offered, dropped>>
  /\ UNCHANGED nonBroker

\* writePump: the queue was closed by the peerManager and is drained
WritePumpClosed(c) ==
  /\ wp[c] = "run"
  /\ send[c] = <<>>
  /\ sendState[c] = "closed"
  /\ wp' = [wp EXCEPT ![c] = "stopped"]
  /\ sockOpen' = [sockOpen EXCEPT ![c] = FALSE]
  /\ UNCHANGED <<cstate, isHost, connID, pending, peerClosed, peers, send,
                 sendState, wire, nread, rejected, evicted, offered, dropped>>
  /\ UNCHANGED nonBroker

Next ==
  \/ \E c \in Conns : Upgrade(c)
  \/ \E c \in Conns : PeerClose(c)
  \/ \E c \in Conns : FirstReadError(c)
  \/ \E c \in Conns : FirstRead(c)
  \/ \E c \in Conns : AddHost(c)
  \/ \E c \in Conns : ReadPumpRead(c)
  \/ \E c \in Conns : ReadPumpError(c)
  \/ \E c \in Conns : RemoveHost(c)
  \/ \E c \in Conns : RouteMessage(c)
  \/ \E c \in Conns : WritePumpWrite(c)
  \/ \E c \in Conns : WritePumpError(c)
  \/ \E c \in Conns : WritePumpClosed(c)

Spec == Init /\ [][Next]_vars

TypeOK ==
  /\ cstate \in [Conns -> {"idle", "first", "addWait", "routeWait", "read", "removeWait", "done"}]
  /\ \A c \in Conns : Len(send[c]) <= SendCap
  /\ nread \in 0..MaxReads

\* The broker's goroutines are scheduled: the actor loop serves every request,
\* a write worker with work makes progress, and a read on a connection that
\* is closed on either side returns an error.
Fairness ==
  \A c \in Conns :
    /\ WF_vars(AddHost(c))
    /\ WF_vars(RemoveHost(c))
    /\ WF_vars(RouteMessage(c))
    /\ WF_vars(WritePumpClosed(c))
    /\ WF_vars((peerClosed[c] \/ ~sockOpen[c]) /\ ReadPumpError(c))

\* the broker with at most LiveReads envelopes read, each within the read
\* limit; a first envelope that is not a register is addressed to host h1
NextLive ==
  \/ \E c \in Conns : Upgrade(c)
  \/ \E c \in Conns : PeerClose(c)
  \/ \E c \in Conns : FirstReadError(c)
  \/ \E c \in Conns : nread < LiveReads /\ FirstRead(c)
                       /\ FrameSize(pending'[c].orig) <= maxMessageSize
                       /\ pending'[c].orig.target_id \in {Absent, "h1"}
  \/ \E c \in Conns : AddHost(c)
  \/ \E c \in Conns : nread < LiveReads /\ ReadPumpRead(c)
  \/ \E c \in Conns : ReadPumpError(c)
  \/ \E c \in Conns : RemoveHost(c)
  \/ \E c \in Conns : RouteMessage(c)
  \/ \E c \in Conns : WritePumpWrite(c)
  \/ \E c \in Conns : WritePumpError(c)
  \/ \E c \in Conns : WritePumpClosed(c)

FairSpec == Init /\ [][NextLive]_vars /\ Fairness

\* writePump, case ticker.C: the ping cannot be written; the pump returns and
\* closes the socket
WritePumpPingError(c) ==
  /\ wp[c] = "run"
  /\ peerClosed[c]
  /\ wp' = [wp EXCEPT ![c] = "stopped"]
  /\ sockOpen' = [sockOpen EXCEPT ![c] = FALSE]
  /\ UNCHANGED <<cstate, isHost, connID, pending, peerClosed, peers, send,
                 sendState, wire, nread, rejected, evicted, offered, dropped>>
  /\ UNCHANGED nonBroker

\* Every WriteMessage of a write worker runs under the write deadline
\* writeWait: it returns, with or without an error.
PumpFairness ==
  \A c \in Conns : WF_vars(WritePumpWrite(c) \/ WritePumpError(c))

NextPump ==
  \/ NextLive
  \/ \E c \in Conns : WritePumpPingError(c)

FairSpecPump == Init /\ [][NextPump]_vars /\ Fairness /\ PumpFairness

(***************************************************************************)
(* Authorization and upgrade (isAuthorized, Run)                           *)
(***************************************************************************)
\* Strings are sequences of atoms; " " is the space character and every other
\* atom stands for a run of non-space characters.
\* strings.Split(s, " "): the parts between the spaces, empty parts included
RECURSIVE SplitAcc(_, _, _)
SplitAcc(s, cur, acc) ==
  IF s = <<>> THEN Append(acc, cur)
  ELSE IF Head(s) = " " THEN SplitAcc(Tail(s), <<>>, Append(acc, cur))
  ELSE SplitAcc(Tail(s), Append(cur, Head(s)), acc)

Split(s) == SplitAcc(s, <<>>, <<>>)

IsAuthorizedAnyScheme(authHeader, tokens) ==
  IF Len(tokens) = 0 THEN TRUE
  ELSE IF authHeader = <<>> THEN FALSE
  ELSE LET parts == Split(authHeader) IN
       IF Len(parts) # 2 THEN FALSE
       ELSE \E i \in 1..Len(tokens) : parts[2] = tokens[i]

\* isAuthorized
IsAuthorized(authHeader, tokens) ==
  IF Len(tokens) = 0 THEN TRUE
  ELSE IF authHeader = <<>> THEN FALSE
  ELSE LET parts == Split(authHeader) IN
       IF Len(parts) # 2 \/ parts[1] # <<"Bearer">> THEN FALSE
       ELSE \E i \in 1..Len(tokens) : parts[2] = tokens[i]

\* upgrader.CheckOrigin
CheckOrigin(origin, allowed) ==
  IF Len(allowed) = 1 /\ allowed[1] = "*" THEN TRUE
  ELSE \E i \in 1..Len(allowed) : origin = allowed[i]

\* token lists a broker is started with: none, one, two, an empty token, and a
\* token that contains a space
TokenLists ==
  { <<>>, << <<"t1">> >>, << <<"t1">>, <<"t2">> >>, << <<>> >>, << <<"t1", " ", "t2">> >> }

OriginLists == { <<"*">>, <<"o1">> }

\* Authorization header values as the handler sees them (net/http strips
\* leading and trailing blanks); <<>> is a request without the header
Headers ==
  { <<>>,
    <<"Bearer", " ", "t1">>,
    <<"Bearer", " ", "t2">>,
    <<"Bearer", " ", "wrong">>,
    <<"Bearer">>,
    <<"t1">>,
    <<"Basic", " ", "t1">>,
    <<"bearer", " ", "t1">>,
    <<"Bearer", " ", " ", "t1">>,
    <<"Bearer", " ", "t1", " ", "t2">> }

Origins == {"o1", "o2"}

InitAuth ==
  /\ validTokens \in TokenLists
  /\ allowedOrigins \in OriginLists
  /\ hreq = [c \in Conns |-> NoRequest]
  /\ status = [c \in Conns |-> 0]

\* the handler Run installs on "/": authorize, upgrade, go handleConnection
ServeHTTP(c) ==
  /\ cstate[c] = "idle"
  /\ status[c] = 0
  /\ \A d \in Conns : d < c => status[d] # 0
  /\ \E h \in Headers : \E o \in Origins :
       /\ hreq' = [hreq EXCEPT ![c] = [hdr |-> h, origin |-> o]]
       /\ IF ~IsAuthorized(h, validTokens)
          THEN /\ status' = [status EXCEPT ![c] = 401]
               /\ UNCHANGED <<cstate, sockOpen>>
          ELSE IF ~CheckOrigin(o, allowedOrigins)
          THEN /\ status' = [status EXCEPT ![c] = 403]
               /\ UNCHANGED <<cstate, sockOpen>>
          ELSE /\ status' = [status EXCEPT ![c] = 101]
               /\ cstate' = [cstate EXCEPT ![c] = "first"]
               /\ sockOpen' = [sockOpen EXCEPT ![c] = TRUE]
  /\ UNCHANGED <<isHost, connID, pending, peerClosed, peers, send, sendState,
                 wp, wire, nread, rejected, evicted, offered, dropped>>
  /\ UNCHANGED <<validTokens, allowedOrigins>>
  /\ UNCHANGED <<cmdVars, streamVars, packetVars, extVars>>

\* the handshake and the first frame of each connection; a first frame that is
\* not a register is the offer of a client to host h1
NextAuth ==
  \/ \E c \in Conns : ServeHTTP(c)
  \/ \E c \in Conns : FirstReadError(c)
  \/ \E c \in Conns :
       /\ FirstRead(c)
       /\ cstate'[c] = "routeWait" =>
            /\ pending'[c].orig.type = MessageTypeOffer
            /\ pending'[c].orig.payload = "sdp"
            /\ pending'[c].orig.target_id = "h1"

\* server.Run called, no connection yet
InitRun == InitBroker /\ InitAuth /\ InitNoCmd /\ InitStream /\ InitPacket /\ InitExt

SpecAuth == InitRun /\ [][NextAuth]_vars

\* the header is "Bearer", one space, and a token of the list
BearerOf(h, tokens) == \E i \in 1..Len(tokens) : h = <<"Bearer", " ">> \o tokens[i]

\* no envelope of the connection has been read or routed
Untouched(c) ==
  /\ cstate[c] = "idle" /\ ~sockOpen[c]
  /\ connID[c] = "" /\ pending[c] = NoReq /\ wire[c] = <<>>

BindPFlag ==
  [k \in ViperKeys |->
     IF k = KeyAuthValidTokens THEN "valid-tokens"
     ELSE IF k = KeyAllowedOrigins THEN "allowed-origins"
     ELSE ""]

\* init: the default value of each flag
FlagDefault == [f \in FlagNames |-> IF f = "allowed-origins" THEN <<"*">> ELSE <<>>]

\* viper.GetStringSlice: a bound flag that was given, then the environment,
\* then the configuration file, then the default of a bound flag, else empty
GetStringSlice(k) ==
  LET f == BindPFlag[k] IN
  IF f # "" /\ cmdArgs[f].set THEN cmdArgs[f].val
  ELSE IF environ[k].set THEN environ[k].val
  ELSE IF cfgFile[k].set THEN cfgFile[k].val
  ELSE IF f # "" THEN FlagDefault[f]
  ELSE <<>>

\* what the operator may write after --valid-tokens, in the file and in the
\* environment
ArgTokenLists == { << <<"t1">> >>, << <<"t1">>, <<"t2">> >> }
FileTokenLists == { << <<"t2">> >> }

InitCmd ==
  /\ cmdArgs \in [FlagNames -> {Unset} \cup {Given(a) : a \in ArgTokenLists}]
  /\ cmdArgs["allowed-origins"] = Unset
  /\ cfgFile \in [ViperKeys -> {Unset} \cup {Given(a) : a \in FileTokenLists}]
  /\ cfgFile[KeyAllowedOrigins] = Unset
  /\ environ \in [ViperKeys -> {Unset} \cup {Given(a) : a \in FileTokenLists}]
  /\ environ[KeyAllowedOrigins] = Unset
  /\ environ[KeyAuthValidTokens] = Unset
  /\ pcCmd = "init"

\* serverCmd.Run: read the settings from viper and call server.Run
ServerCmdRun ==
  /\ pcCmd = "init"
  /\ pcCmd' = "running"
  /\ allowedOrigins' = GetStringSlice(KeyAllowedOrigins)
  /\ validTokens' = GetStringSlice(KeyValidTokens)
  /\ UNCHANGED <<hreq, status, cmdArgs, cfgFile, environ>>
  /\ UNCHANGED <<brokerVars, streamVars, packetVars, extVars>>

\* the command starts the broker, which then serves handshakes
NextCmd ==
  \/ ServerCmdRun
  \/ \E c \in Conns : pcCmd = "running" /\ ServeHTTP(c)

\* the process starts with the server command
InitServerCmd == InitBroker /\ InitNoAuth /\ InitCmd /\ InitStream /\ InitPacket /\ InitExt

SpecCmd == InitServerCmd /\ [][NextCmd]_vars

\* C8: when the server command is started with --valid-tokens holding at least
\* one token, the broker runs with that token list, and a handshake that does
\* not present one of these tokens is answered 401.
C8_FlagTokensEnforced ==
  (pcCmd = "running" /\ cmdArgs["valid-tokens"].set /\ Len(cmdArgs["valid-tokens"].val) >= 1) =>
    /\ validTokens = cmdArgs["valid-tokens"].val
    /\ \A c \in Conns :
         (status[c] # 0 /\ ~BearerOf(hreq[c].hdr, cmdArgs["valid-tokens"].val)) => status[c] = 401

(***************************************************************************)
(* The TCP bridge (BridgeStream)                                           *)
(***************************************************************************)
nonStream == <<brokerVars, authVars, cmdVars, packetVars, extVars>>

Min(a, b) == IF a < b THEN a ELSE b

\* the concatenation of a sequence of byte sequences
RECURSIVE Concat(_)
Concat(ss) == IF ss = <<>> THEN <<>> ELSE Head(ss) \o Concat(Tail(ss))

\* the data-channel messages the remote side may send (msg.Data)
DcFrames == {<<>>, <<1>>, <<2>>, <<1, 2>>, <<2, 1>>}

\* the local application writes one more byte
AppWrite ==
  /\ ~appEOF
  /\ Len(appOut) < MaxBytes
  /\ \E b \in Bytes : appOut' = Append(appOut, b)
  /\ UNCHANGED <<rd, appEOF, buf, nbuf, pcLoop, dcSent, dcRecv, localWritten,
                 localClosed, dcClosed>>
  /\ UNCHANGED closerRuns
  /\ UNCHANGED nonStream

\* the local application closes its connection
AppClose ==
  /\ ~appEOF
  /\ appEOF' = TRUE
  /\ UNCHANGED <<appOut, rd, buf, nbuf, pcLoop, dcSent, dcRecv, localWritten,
                 localClosed, dcClosed>>
  /\ UNCHANGED closerRuns
  /\ UNCHANGED nonStream

\* local.Read(buf) returns n > 0 bytes
LoopRead ==
  /\ pcLoop = "read"
  /\ ~localClosed
  /\ rd < Len(appOut)
  /\ \E n \in 1..Min(BufSize, Len(appOut) - rd) :
       /\ buf' = [i \in 1..BufSize |-> IF i <= n THEN appOut[rd + i] ELSE buf[i]]
       /\ nbuf' = n
       /\ rd' = rd + n
  /\ pcLoop' = "send"
  /\ UNCHANGED <<appOut, appEOF, dcSent, dcRecv, localWritten, localClosed, dcClosed>>
  /\ UNCHANGED closerRuns
  /\ UNCHANGED nonStream

\* local.Read fails: EOF after the application closed and its bytes were read,
\* or the connection was closed by closer(); closer() runs and the loop returns
LoopReadError ==
  /\ pcLoop = "read"
  /\ localClosed \/ (appEOF /\ rd = Len(appOut))
  /\ localClosed' = TRUE
  /\ dcClosed' = TRUE
  /\ pcLoop' = "done"
  /\ UNCHANGED <<appOut, rd, appEOF, buf, nbuf, dcSent, dcRecv, localWritten>>
  /\ closerRuns' = closerRuns + 1
  /\ UNCHANGED nonStream

LoopSendWholeBuf ==
  /\ pcLoop = "send"
  /\ IF dcClosed
     THEN /\ localClosed' = TRUE
          /\ pcLoop' = "done"
          /\ UNCHANGED <<dcSent, dcClosed>>
     ELSE /\ dcSent' = Append(dcSent, buf)
          /\ pcLoop' = "read"
          /\ UNCHANGED <<localClosed, dcClosed>>
  /\ UNCHANGED <<appOut, rd, appEOF, buf, nbuf, dcRecv, localWritten>>
  /\ closerRuns' = IF dcClosed THEN closerRuns + 1 ELSE closerRuns
  /\ UNCHANGED nonStream

\* dc.Send(buf[:n]); on an error closer() runs and the loop returns
LoopSend ==
  /\ pcLoop = "send"
  /\ IF dcClosed
     THEN /\ localClosed' = TRUE
          /\ pcLoop' = "done"
          /\ UNCHANGED <<dcSent, dcClosed>>
     ELSE /\ dcSent' = Append(dcSent, SubSeq(buf, 1, nbuf))
          /\ pcLoop' = "read"
          /\ UNCHANGED <<localClosed, dcClosed>>
  /\ UNCHANGED <<appOut, rd, appEOF, buf, nbuf, dcRecv, localWritten>>
  /\ closerRuns' = IF dcClosed THEN closerRuns + 1 ELSE closerRuns
  /\ UNCHANGED nonStream

\* the OnMessage handler: local.Write(msg.Data) succeeds
OnMessage ==
  /\ ~dcClosed
  /\ ~localClosed
  /\ Len(dcRecv) < MaxFrames
  /\ \E data \in DcFrames :
       /\ dcRecv' = Append(dcRecv, data)
       /\ localWritten' = localWritten \o data
  /\ UNCHANGED <<appOut, rd, appEOF, buf, nbuf, pcLoop, dcSent, localClosed, dcClosed>>
  /\ UNCHANGED closerRuns
  /\ UNCHANGED nonStream

\* the OnMessage handler: local.Write fails after k < len bytes; closer() runs
OnMessageWriteError ==
  /\ ~dcClosed
  /\ Len(dcRecv) < MaxFrames
  /\ \E data \in DcFrames :
       /\ dcRecv' = Append(dcRecv, data)
       /\ \E k \in 0..Len(data) :
            /\ k < Len(data) \/ Len(data) = 0
            /\ localClosed => k = 0
            /\ localWritten' = localWritten \o SubSeq(data, 1, k)
  /\ localClosed' = TRUE
  /\ dcClosed' = TRUE
  /\ UNCHANGED <<appOut, rd, appEOF, buf, nbuf, pcLoop, dcSent>>
  /\ closerRuns' = closerRuns + 1
  /\ UNCHANGED nonStream

\* the data channel closes (remote close or transport failure); the OnClose
\* handler runs closer()
OnClose ==
  /\ ~dcClosed
  /\ dcClosed' = TRUE
  /\ localClosed' = TRUE
  /\ UNCHANGED <<appOut, rd, appEOF, buf, nbuf, pcLoop, dcSent, dcRecv, localWritten>>
  /\ closerRuns' = closerRuns + 1
  /\ UNCHANGED nonStream

NextStream ==
  \/ AppWrite
  \/ AppClose
  \/ LoopRead
  \/ LoopReadError
  \/ LoopSend
  \/ OnMessage
  \/ OnMessageWriteError
  \/ OnClose

SpecStream == Init /\ [][NextStream]_vars

\* C34: closer() runs at most once in a bridge, so that local.Close() and
\* dc.Close() are each called at most once.
C34_ClosedOnce == closerRuns <= 1

\* s is an initial segment of t
IsPrefix(s, t) == Len(s) <= Len(t) /\ s = SubSeq(t, 1, Len(s))

\* the chunk that was read and is about to be sent
InFlight == IF pcLoop = "send" THEN SubSeq(appOut, rd - nbuf + 1, rd) ELSE <<>>

\* C9: while neither side of a TCP bridge is closed, the bytes written to the
\* local connection are the received data-channel frames concatenated in
\* arrival order and the bytes sent on the data channel, with the chunk being
\* sent, are the bytes read from the local connection in read order; after a
\* close both are still initial segments of these streams.
C9_StreamBytesPreserved ==
  /\ (~localClosed /\ ~dcClosed) =>
       /\ localWritten = Concat(dcRecv)
       /\ Concat(dcSent) \o InFlight = SubSeq(appOut, 1, rd)
  /\ IsPrefix(localWritten, Concat(dcRecv))
  /\ IsPrefix(Concat(dcSent), SubSeq(appOut, 1, rd))

\* an open bridge that has moved several chunks in each direction
C9_Witness ==
  /\ ~localClosed /\ ~dcClosed
  /\ Len(dcSent) >= 2 /\ Len(Concat(dcSent)) = MaxBytes
  /\ \E i \in 1..Len(dcSent) : Len(dcSent[i]) < BufSize
  /\ Len(dcRecv) >= 2 /\ Len(localWritten) >= 3

(***************************************************************************)
(* The UDP bridge (BridgePacket)                                           *)
(***************************************************************************)
nonPacket == <<brokerVars, authVars, cmdVars, streamVars, extVars>>

\* packets the local side sends and messages the remote side sends in one run
MaxPkts == 3
MaxMsgs == 3
\* datagram lengths (n of ReadFrom may be 0)
PktLens == {0, 1}

\* the interface value being stored: one of its two words is written
HalfAddr(a) == [st |-> "half", a |-> a]
SetAddr(a) == [st |-> "set", a |-> a]

\* what the unsynchronised read of returnAddr in the OnMessage handler may
\* yield: the value itself, a stale nil, or a torn interface value while the
\* goroutine is storing
Observed(v) ==
  CASE v.st = "nil" -> {"nil"}
    [] v.st = "half" -> {"nil", "torn"}
    [] v.st = "set" -> {"nil", v.a}

\* closer()
Closer ==
  /\ pconnClosed' = TRUE
  /\ udcClosed' = TRUE

\* pconn.ReadFrom(buf) returns a datagram of n bytes from addr
ReaderRead ==
  /\ pcR = "read"
  /\ ~pconnClosed
  /\ nPkt < MaxPkts
  /\ \E n \in PktLens, addr \in Addrs :
       /\ pkt' = [n |-> n, addr |-> addr]
       /\ firstAddr' = IF nPkt = 0 THEN addr ELSE firstAddr
       /\ srcSeen' = srcSeen \cup {addr}
  /\ nPkt' = nPkt + 1
  /\ pcR' = "check"
  /\ UNCHANGED <<returnAddr, writes, nMsg, pconnClosed, udcClosed>>
  /\ UNCHANGED nonPacket

\* pconn.ReadFrom fails on the closed socket: closer() and return
ReaderReadError ==
  /\ pcR = "read"
  /\ pconnClosed
  /\ Closer
  /\ pcR' = "done"
  /\ UNCHANGED <<returnAddr, pkt, firstAddr, srcSeen, writes, nPkt, nMsg>>
  /\ UNCHANGED nonPacket

ReaderCheckTrack ==
  /\ pcR = "check"
  /\ returnAddr' = HalfAddr(pkt.addr)
  /\ pcR' = "store"
  /\ UNCHANGED <<pkt, firstAddr, srcSeen, writes, nPkt, nMsg, pconnClosed, udcClosed>>
  /\ UNCHANGED nonPacket

\* if returnAddr == nil { returnAddr = addr }: the test and the first word
ReaderCheck ==
  /\ pcR = "check"
  /\ IF returnAddr.st = "nil"
     THEN /\ returnAddr' = HalfAddr(pkt.addr)
          /\ pcR' = "store"
     ELSE /\ pcR' = "send"
          /\ UNCHANGED returnAddr
  /\ UNCHANGED <<pkt, firstAddr, srcSeen, writes, nPkt, nMsg, pconnClosed, udcClosed>>
  /\ UNCHANGED nonPacket

\* returnAddr = addr: the second word
ReaderStore ==
  /\ pcR = "store"
  /\ returnAddr' = SetAddr(returnAddr.a)
  /\ pcR' = "send"
  /\ UNCHANGED <<pkt, firstAddr, srcSeen, writes, nPkt, nMsg, pconnClosed, udcClosed>>
  /\ UNCHANGED nonPacket

\* if n > 0 { dc.Send(buf[:n]) }; on an error closer() and return
ReaderSend ==
  /\ pcR = "send"
  /\ IF pkt.n > 0 /\ udcClosed
     THEN /\ Closer
          /\ pcR' = "done"
     ELSE /\ pcR' = "read"
          /\ UNCHANGED <<pconnClosed, udcClosed>>
  /\ UNCHANGED <<returnAddr, pkt, firstAddr, srcSeen, writes, nPkt, nMsg>>
  /\ UNCHANGED nonPacket

\* the OnMessage handler of the UDP bridge
OnMessagePacket ==
  /\ ~udcClosed
  /\ nMsg < MaxMsgs
  /\ nMsg' = nMsg + 1
  /\ \E seen \in Observed(returnAddr) :
       CASE seen = "nil" ->
              UNCHANGED <<writes, pconnClosed, udcClosed>>
         [] seen = "torn" \/ (seen \in Addrs /\ pconnClosed) ->
              /\ Closer
              /\ UNCHANGED writes
         [] OTHER ->
              /\ writes' = Append(writes, [to |-> seen, seen |-> srcSeen])
              /\ UNCHANGED <<pconnClosed, udcClosed>>
  /\ UNCHANGED <<returnAddr, pcR, pkt, firstAddr, srcSeen, nPkt>>
  /\ UNCHANGED nonPacket

\* the data channel closes; the OnClose handler runs closer()
OnClosePacket ==
  /\ ~udcClosed
  /\ Closer
  /\ UNCHANGED <<returnAddr, pcR, pkt, firstAddr, srcSeen, writes, nPkt, nMsg>>
  /\ UNCHANGED nonPacket

NextPacket ==
  \/ ReaderRead
  \/ ReaderReadError
  \/ ReaderCheck
  \/ ReaderStore
  \/ ReaderSend
  \/ OnMessagePacket
  \/ OnClosePacket

SpecPacket == Init /\ [][NextPacket]_vars

\* C10: a UDP bridge writes every datagram to the source address of the first
\* packet it read from the local socket, writes none before that packet was
\* read, and never changes the recorded address, whatever the source of later
\* packets.
C10_ReturnAddrIsFirstSource ==
  /\ [](\A i \in 1..Len(writes) : firstAddr \in Addrs /\ writes[i].to = firstAddr)
  /\ [](returnAddr.st # "nil" => returnAddr.a = firstAddr)
  /\ [][returnAddr.st = "set" => returnAddr' = returnAddr]_vars

\* a datagram went to the first source after a packet from another address
C10_Witness ==
  /\ writes # <<>>
  /\ writes[Len(writes)].to = firstAddr
  /\ writes[Len(writes)].seen = Addrs
  /\ pcR = "read" /\ nPkt >= 2

(***************************************************************************)
(* Encoding and decoding an envelope (encoding/json on signal.Message)     *)
(***************************************************************************)
nonJson == <<brokerVars, authVars, cmdVars, streamVars, packetVars, mutexVars, runVars, clientVars, lateVars>>

\* the envelopes the roles build
GoTypes == {MessageTypeRegisterHost, MessageTypeOffer, MessageTypeAnswer,
            MessageTypeCandidate, MessageTypeError}
GoPayloads == {Nil, "sdp", GoOfferPayload, GoOfferMap}
GoIDs == {"", "h1", "c1"}

InitJson ==
  /\ env \in {Message(t, p, tgt, snd) : t \in GoTypes, p \in GoPayloads,
                                        tgt \in GoIDs, snd \in GoIDs}
  /\ enc = Marshal(NoMsg)
  /\ dec = NoMsg
  /\ pcJson = "new"

InitEnvelope == InitBroker /\ InitRest /\ InitJson /\ InitMutex /\ InitNoLoop /\ InitNoClient /\ InitLate

\* json.Marshal(msg)
Encode ==
  /\ pcJson = "new"
  /\ enc' = Marshal(env)
  /\ pcJson' = "encoded"
  /\ UNCHANGED <<env, dec>>
  /\ UNCHANGED nonJson

\* json.Unmarshal(data, &msg)
Decode ==
  /\ pcJson = "encoded"
  /\ dec' = Unmarshal(enc)
  /\ pcJson' = "decoded"
  /\ UNCHANGED <<env, enc>>
  /\ UNCHANGED nonJson

NextJson == Encode \/ Decode

SpecJson == InitEnvelope /\ [][NextJson]_vars

\* RemarshalPayload(payload, &target) with target an OfferPayload: the payload
\* is encoded and decoded into the struct
RemarshalPayload(p) ==
  IF MarshalPayload(p) = JsonOfferObject THEN GoOfferPayload ELSE p

nonMutex == <<brokerVars, authVars, cmdVars, streamVars, packetVars, jsonVars, runVars, clientVars, lateVars>>

\* addHost(id, conn) under pm.mu.Lock(), with handleConnection's reaction
MxAddHost(h) ==
  /\ ~mxPanic
  /\ mxHost[h] = "new"
  /\ IF mxPeers # NoQueue
     THEN /\ mxHost' = [mxHost EXCEPT ![h] = "done"]
          /\ UNCHANGED <<mxPeers, mxQueue, mxSafe>>
     ELSE /\ mxPeers' = h
          /\ mxQueue' = [mxQueue EXCEPT ![h] = "open"]
          /\ mxSafe' = [mxSafe EXCEPT ![h] = h]
          /\ mxHost' = [mxHost EXCEPT ![h] = "reading"]
  /\ UNCHANGED <<mxLen, mxRouter, mxTarget, mxRoutes, mxPanic>>
  /\ UNCHANGED nonMutex

\* readPump of a host ends; the deferred removeHost(id) runs under pm.mu.Lock()
MxRemoveHost(h) ==
  /\ ~mxPanic
  /\ mxHost[h] = "reading"
  /\ mxHost' = [mxHost EXCEPT ![h] = "done"]
  /\ IF mxPeers # NoQueue
     THEN /\ mxQueue' = [mxQueue EXCEPT ![mxPeers] = "closed"]
          /\ mxPeers' = NoQueue
     ELSE UNCHANGED <<mxQueue, mxPeers>>
  /\ UNCHANGED <<mxLen, mxSafe, mxRouter, mxTarget, mxRoutes, mxPanic>>
  /\ UNCHANGED nonMutex

\* routeMessage: target := pm.getHost(targetID), under pm.mu.RLock(); for a
\* nil target the error envelope is written and routeMessage returns
MxGetHost(r) ==
  /\ ~mxPanic
  /\ mxRouter[r] = "idle"
  /\ mxRoutes < MxMaxRoutes
  /\ mxRoutes' = mxRoutes + 1
  /\ mxTarget' = [mxTarget EXCEPT ![r] = mxPeers]
  /\ mxRouter' = [mxRouter EXCEPT ![r] = IF mxPeers = NoQueue THEN "idle" ELSE "got"]
  /\ UNCHANGED <<mxPeers, mxQueue, mxLen, mxHost, mxSafe, mxPanic>>
  /\ UNCHANGED nonMutex

\* routeMessage: select { case target.send <- b: default: }, with no lock
\* held; a send on a closed channel panics
MxSend(r) ==
  /\ ~mxPanic
  /\ mxRouter[r] = "got"
  /\ mxRouter' = [mxRouter EXCEPT ![r] = "idle"]
  /\ LET q == mxTarget[r] IN
       IF mxQueue[q] = "closed"
       THEN /\ mxPanic' = TRUE
            /\ UNCHANGED mxLen
       ELSE IF mxLen[q] < SendCap
       THEN /\ mxLen' = [mxLen EXCEPT ![q] = @ + 1]
            /\ UNCHANGED mxPanic
       ELSE UNCHANGED <<mxLen, mxPanic>>
  /\ UNCHANGED <<mxPeers, mxQueue, mxHost, mxSafe, mxTarget, mxRoutes>>
  /\ UNCHANGED nonMutex

\* writePump takes a message from its queue
MxWritePump(q) ==
  /\ ~mxPanic
  /\ mxLen[q] > 0
  /\ mxLen' = [mxLen EXCEPT ![q] = @ - 1]
  /\ UNCHANGED <<mxPeers, mxQueue, mxHost, mxSafe, mxRouter, mxTarget, mxRoutes, mxPanic>>
  /\ UNCHANGED nonMutex

NextMutex ==
  \/ \E h \in 1..MxHosts : MxAddHost(h)
  \/ \E h \in 1..MxHosts : MxRemoveHost(h)
  \/ \E r \in 1..MxRouters : MxGetHost(r)
  \/ \E r \in 1..MxRouters : MxSend(r)
  \/ \E q \in 1..MxHosts : MxWritePump(q)

SpecMutex == Init /\ [][NextMutex]_vars

\* C20: in the mutex-based broker no interleaving of routeMessage with
\* removeHost sends on a queue that removeHost has closed: the broker never
\* panics.
C20_NoSendOnClosedQueue == ~mxPanic

(***************************************************************************)
(* The outer loop of host.Run and client.Run, and the client's sessions    *)
(***************************************************************************)
nonRun == <<brokerVars, authVars, cmdVars, streamVars, packetVars, jsonVars, mutexVars, clientVars, lateVars>>

\* iterations of the outer loop in one run
MaxAttempts == 40

\* 2^n for small n
RECURSIVE Pow2(_)
Pow2(n) == IF n = 0 THEN 1 ELSE 2 * Pow2(n - 1)

\* the int64 with value 2^n, 0 <= n <= 63 (n = 63 is the sign bit alone)
Int64FromPow2(n) == [i \in 1..8 |-> IF i = (n \div 8) + 1 THEN Pow2(n % 8) ELSE 0]
MinInt64 == Int64FromPow2(63)
MaxInt64 == [i \in 1..8 |-> IF i = 8 THEN 127 ELSE 255]

\* time.Duration(math.Pow(2, float64(attempt))): the power is exact; a value
\* that does not fit in an int64 converts to an implementation-dependent
\* value, the smallest int64 on amd64 and the largest on arm64
DurationOfPow(n) == IF n <= 62 THEN {Int64FromPow2(n)} ELSE {MinInt64, MaxInt64}

\* v * k in 64-bit wrapping arithmetic, for 0 <= k <= 1000
RECURSIVE MulDigits(_, _, _, _)
MulDigits(v, k, i, carry) ==
  IF i > 8 THEN <<>>
  ELSE LET t == v[i] * k + carry IN <<t % 256>> \o MulDigits(v, k, i + 1, t \div 256)

MulSmall(v, k) == MulDigits(v, k, 1, 0)

\* d * time.Second (10^9 nanoseconds)
MulSecond(d) == MulSmall(MulSmall(MulSmall(d, 1000), 1000), 1000)

IsNegative(v) == v[8] >= 128

RECURSIVE GreaterFrom(_, _, _)
GreaterFrom(a, b, i) ==
  IF i = 0 THEN FALSE
  ELSE IF a[i] # b[i] THEN a[i] > b[i]
  ELSE GreaterFrom(a, b, i - 1)

\* a > b for int64
Greater(a, b) ==
  IF IsNegative(a) # IsNegative(b) THEN IsNegative(b) ELSE GreaterFrom(a, b, 8)

\* 30 * time.Second
ThirtySeconds == MulSecond(Int64FromInt(30))

\* backoff := conv * time.Second; if backoff > 30*time.Second { backoff = 30*time.Second }
Backoff(conv) ==
  LET d == MulSecond(conv) IN IF Greater(d, ThirtySeconds) THEN ThirtySeconds ELSE d

\* the signal handler goroutine calls cancelApp()
Cancel ==
  /\ ~fatal
  /\ ~cancelled
  /\ pcRun # "returned"
  /\ cancelled' = TRUE
  /\ cancelAt' = pcRun
  /\ UNCHANGED <<role, attempt, pcRun, backoff, dialled, lateDial, connectedOnce,
                 managePc, manageOf, listening, fatal>>
  /\ UNCHANGED nonRun

LoopTopNoCheck ==
  /\ ~fatal
  /\ pcRun = "top"
  /\ attempt < MaxAttempts
  /\ attempt' = attempt + 1
  /\ pcRun' = "dial"
  /\ UNCHANGED <<role, cancelled, backoff, dialled, cancelAt, lateDial, connectedOnce,
                 managePc, manageOf, listening, fatal>>
  /\ UNCHANGED nonRun

\* attempt++; select { case <-appCtx.Done(): return nil; default: }
LoopTop ==
  /\ ~fatal
  /\ pcRun = "top"
  /\ attempt < MaxAttempts
  /\ attempt' = attempt + 1
  /\ pcRun' = IF cancelled THEN "returned" ELSE "dial"
  /\ UNCHANGED <<role, cancelled, backoff, dialled, cancelAt, lateDial, connectedOnce,
                 managePc, manageOf, listening, fatal>>
  /\ UNCHANGED nonRun

\* runHostSession / runClientSession: websocket.DefaultDialer.Dial, which takes
\* no context, succeeds (the session starts) or fails (the session returns)
Dial ==
  /\ ~fatal
  /\ pcRun = "dial"
  /\ dialled' = TRUE
  /\ lateDial' = (lateDial \/ cancelled)
  /\ connectedOnce' = FALSE
  /\ \E ok \in BOOLEAN : pcRun' = IF ok THEN "session" ELSE "ended"
  /\ UNCHANGED <<role, attempt, cancelled, backoff, cancelAt, managePc, manageOf,
                 listening, fatal>>
  /\ UNCHANGED nonRun

\* the session returns: its context is done (cancelApp, or for the client
\* cancelSession after a signaling read error or a peer-connection failure),
\* or for the host handleSignal returned after a signaling read error;
\* neither role closes a peer connection here
SessionEnd ==
  /\ ~fatal
  /\ pcRun = "session"
  /\ pcRun' = "ended"
  /\ UNCHANGED <<role, attempt, cancelled, backoff, dialled, cancelAt, lateDial,
                 connectedOnce, managePc, manageOf, listening, fatal>>
  /\ UNCHANGED nonRun

\* if appCtx.Err() != nil { return nil }; otherwise the backoff is computed
AfterSession ==
  /\ ~fatal
  /\ pcRun = "ended"
  /\ IF cancelled
     THEN /\ pcRun' = "returned"
          /\ UNCHANGED backoff
     ELSE /\ pcRun' = "backoff"
          /\ \E conv \in DurationOfPow(attempt) : backoff' = Backoff(conv)
  /\ UNCHANGED <<role, attempt, cancelled, dialled, cancelAt, lateDial, connectedOnce,
                 managePc, manageOf, listening, fatal>>
  /\ UNCHANGED nonRun

\* select { case <-appCtx.Done(): return nil; case <-time.After(backoff): }
BackoffWait ==
  /\ ~fatal
  /\ pcRun = "backoff"
  /\ \/ cancelled /\ pcRun' = "returned"
     \/ pcRun' = "top"
  /\ UNCHANGED <<role, attempt, cancelled, backoff, dialled, cancelAt, lateDial,
                 connectedOnce, managePc, manageOf, listening, fatal>>
  /\ UNCHANGED nonRun

\* client, tcp: the peer connection of the session reports Connected;
\* listenerOnce.Do(func() { go manageTCPConnections(pc, localAddr) })
PeerConnected ==
  /\ ~fatal
  /\ role = "client"
  /\ pcRun = "session"
  /\ ~connectedOnce
  /\ managePc = "none"
  /\ connectedOnce' = TRUE
  /\ managePc' = "spawned"
  /\ manageOf' = attempt
  /\ UNCHANGED <<role, attempt, pcRun, cancelled, backoff, dialled, cancelAt, lateDial,
                 listening, fatal>>
  /\ UNCHANGED nonRun

\* manageTCPConnections: net.Listen("tcp", localAddr); on an error glog.Fatalf
\* ends the process. The listener is closed only when the accept loop
\* returns, which it does only after Accept fails, so a listener of an earlier
\* session stays bound.
ManageListen ==
  /\ ~fatal
  /\ managePc = "spawned"
  /\ managePc' = "none"
  /\ IF listening # 0
     THEN /\ fatal' = TRUE
          /\ UNCHANGED listening
     ELSE /\ listening' = manageOf
          /\ UNCHANGED fatal
  /\ UNCHANGED <<role, attempt, pcRun, cancelled, backoff, dialled, cancelAt, lateDial,
                 connectedOnce, manageOf>>
  /\ UNCHANGED nonRun

NextRun ==
  \/ Cancel
  \/ LoopTop
  \/ Dial
  \/ SessionEnd
  \/ AfterSession
  \/ BackoffWait
  \/ PeerConnected
  \/ ManageListen

InitRoles == InitBroker /\ InitRest /\ InitNoJson /\ InitMutex /\ InitLoop /\ InitNoClient /\ InitLate

SpecRun == InitRoles /\ [][NextRun]_vars

\* C13: a client session that starts after a reconnect and whose peer
\* connection becomes connected gets the local listener, and the process
\* keeps running.
C13_ReconnectListens ==
  [][(managePc = "spawned" /\ managePc' = "none") => (~fatal' /\ listening' = manageOf)]_vars

\* min(2^n, 30) seconds as a duration
ClaimedDelay(n) == MulSecond(Int64FromInt(IF n >= 5 THEN 30 ELSE Pow2(n)))

\* C14: the delay waited after attempt n is min(2^n, 30) seconds, for every n.
C14_BackoffIsMinPow2Cap == pcRun = "backoff" => backoff = ClaimedDelay(attempt)

nonClient == <<brokerVars, authVars, cmdVars, streamVars, packetVars, jsonVars,
               mutexVars, runVars, lateVars>>

\* ICE completes: the peer connection reports Connected
PeerConnects ==
  /\ peerState = "connecting"
  /\ peerState' = "connected"
  /\ UNCHANGED <<clPc, wsLost, readerPc, chanState, lostOpen, acceptPc, lconn, chanOf, served>>
  /\ UNCHANGED nonClient

\* the data channel opens on the connected peer connection
ChanOpens ==
  /\ peerState = "connected"
  /\ chanState = "connecting"
  /\ chanState' = "open"
  /\ UNCHANGED <<clPc, wsLost, readerPc, peerState, lostOpen, acceptPc, lconn, chanOf, served>>
  /\ UNCHANGED nonClient

\* negotiate: select on connected; returns pc and dc, or an error when the
\* peer connection is not connected
NegotiateReturn ==
  /\ clPc = "negotiate"
  /\ peerState # "connecting"
  /\ clPc' = IF peerState = "connected" THEN "tunnel" ELSE "failed"
  /\ UNCHANGED <<wsLost, readerPc, peerState, chanState, lostOpen, acceptPc, lconn, chanOf, served>>
  /\ UNCHANGED nonClient

\* negotiate: the timeout fires first; pc.Close() and an error
NegotiateTimeout ==
  /\ clPc = "negotiate"
  /\ clPc' = "failed"
  /\ peerState' = "closed"
  /\ chanState' = "closed"
  /\ UNCHANGED <<wsLost, readerPc, lostOpen, acceptPc, lconn, chanOf, served>>
  /\ UNCHANGED nonClient

\* tunnel: net.Listen and dc.OnOpen(handler); Run then waits for ctx.Done()
Tunnel ==
  /\ clPc = "tunnel"
  /\ clPc' = "serving"
  /\ UNCHANGED <<wsLost, readerPc, peerState, chanState, lostOpen, acceptPc, lconn, chanOf, served>>
  /\ UNCHANGED nonClient

\* the OnOpen handler starts the accept loop
OnOpen ==
  /\ clPc = "serving"
  /\ chanState = "open"
  /\ acceptPc = "off"
  /\ acceptPc' = "accept"
  /\ UNCHANGED <<clPc, wsLost, readerPc, peerState, chanState, lostOpen, lconn, chanOf, served>>
  /\ UNCHANGED nonClient

\* the connection to the broker is lost
WsLost ==
  /\ clPc # "failed"
  /\ ~wsLost
  /\ wsLost' = TRUE
  /\ UNCHANGED <<clPc, readerPc, peerState, chanState, lostOpen, acceptPc, lconn, chanOf, served>>
  /\ UNCHANGED nonClient

\* the reader goroutine of negotiate: wsc.ReadMessage fails; pc.Close(); return
ReaderError ==
  /\ readerPc = "read"
  /\ wsLost
  /\ readerPc' = "done"
  /\ peerState' = "closed"
  /\ chanState' = "closed"
  /\ lostOpen' = (lostOpen \/ chanState = "open")
  /\ UNCHANGED <<clPc, wsLost, acceptPc, lconn, chanOf, served>>
  /\ UNCHANGED nonClient

\* a local application connects to the listener (in order of their numbers)
LocalDial(l) ==
  /\ clPc = "serving"
  /\ lconn[l] = "none"
  /\ \A k \in Locals : k < l => lconn[k] # "none"
  /\ lconn' = [lconn EXCEPT ![l] = "queued"]
  /\ UNCHANGED <<clPc, wsLost, readerPc, peerState, chanState, lostOpen, acceptPc, chanOf, served>>
  /\ UNCHANGED nonClient

\* the accept loop: listener.Accept() and common.BridgeStream(dc, localConn),
\* which blocks the loop until the bridge ends
Accept(l) ==
  /\ acceptPc = "accept"
  /\ lconn[l] = "queued"
  /\ \A k \in Locals : k < l => lconn[k] # "queued"
  /\ lconn' = [lconn EXCEPT ![l] = "bridged"]
  /\ chanOf' = [chanOf EXCEPT ![l] = WttChan]
  /\ acceptPc' = "bridge"
  /\ UNCHANGED <<clPc, wsLost, readerPc, peerState, chanState, lostOpen, served>>
  /\ UNCHANGED nonClient

\* BridgeStream: bytes read from the local connection are sent on the channel
BridgeForward(l) ==
  /\ lconn[l] = "bridged"
  /\ chanState = "open"
  /\ ~served[l]
  /\ served' = [served EXCEPT ![l] = TRUE]
  /\ UNCHANGED <<clPc, wsLost, readerPc, peerState, chanState, lostOpen, acceptPc, lconn, chanOf>>
  /\ UNCHANGED nonClient

\* BridgeStream ends: the local application closes (Read returns EOF), or the
\* channel is closed (OnClose, or dc.Send fails); closer() closes both and the
\* accept loop goes on
BridgeEnd(l) ==
  /\ lconn[l] = "bridged"
  /\ lconn' = [lconn EXCEPT ![l] = "closed"]
  /\ chanState' = "closed"
  /\ acceptPc' = "accept"
  /\ UNCHANGED <<clPc, wsLost, readerPc, peerState, lostOpen, chanOf, served>>
  /\ UNCHANGED nonClient

NextClient ==
  \/ PeerConnects
  \/ ChanOpens
  \/ NegotiateReturn
  \/ NegotiateTimeout
  \/ Tunnel
  \/ OnOpen
  \/ WsLost
  \/ ReaderError
  \/ \E l \in Locals : LocalDial(l)
  \/ \E l \in Locals : Accept(l)
  \/ \E l \in Locals : BridgeForward(l)
  \/ \E l \in Locals : BridgeEnd(l)

InitClientRun == InitBroker /\ InitRest /\ InitNoJson /\ InitMutex /\ InitNoLoop /\ InitClient /\ InitLate

SpecClient == InitClientRun /\ [][NextClient]_vars

\* C11: no two local connections accepted by the client are bridged over the
\* same data channel, at the same time or one after the other.
C11_ChannelPerConnection ==
  \A k, l \in Locals :
    (k # l /\ chanOf[k] # NoChan /\ chanOf[l] # NoChan) => chanOf[k] # chanOf[l]

\* C12: a signaling read error does not close the peer connection of an open
\* data channel.
C12_SignalLossKeepsChannel == ~lostOpen

(***************************************************************************)
(* The task pm.run and the socket write it makes                          *)
(***************************************************************************)
earlyVars == <<brokerVars, authVars, cmdVars, streamVars, packetVars, jsonVars,
               mutexVars, runVars, clientVars>>

nonActor == <<earlyVars, timerVars, hostVars, lastVars>>

\* the requests a handler sends to pm.run: id is req.id or req.msg.TargetID
ActorReqs ==
  { [kind |-> "addHost", id |-> "h1"],
    [kind |-> "removeHost", id |-> "h1"],
    [kind |-> "routeMessage", id |-> "h1"],
    [kind |-> "routeMessage", id |-> "c1"] }

\* a handler sends a request on pm.addHost, pm.removeHost or pm.routeMessage
\* and blocks until pm.run takes it and answers
AcRequest(c) ==
  /\ acReq[c] = NoActorReq
  /\ \E r \in ActorReqs : acReq' = [acReq EXCEPT ![c] = r]
  /\ UNCHANGED <<acPeers, acRun, acWriteTo, acStalled, acErrors>>
  /\ UNCHANGED nonActor

\* the remote end of a connection stops reading: writes on it do not drain
AcStall(c) ==
  /\ ~acStalled[c]
  /\ acStalled' = [acStalled EXCEPT ![c] = TRUE]
  /\ UNCHANGED <<acReq, acPeers, acRun, acWriteTo, acErrors>>
  /\ UNCHANGED nonActor

\* pm.run takes one request at its select; for an unknown target it goes on to
\* write the error envelope on the sender's socket
AcServe(c) ==
  /\ acRun = "select"
  /\ acReq[c] # NoActorReq
  /\ LET r == acReq[c] IN
     IF r.kind = "addHost"
     THEN /\ acPeers' = acPeers \cup {r.id}
          /\ acReq' = [acReq EXCEPT ![c] = NoActorReq]
          /\ UNCHANGED <<acRun, acWriteTo>>
     ELSE IF r.kind = "removeHost"
     THEN /\ acPeers' = acPeers \ {r.id}
          /\ acReq' = [acReq EXCEPT ![c] = NoActorReq]
          /\ UNCHANGED <<acRun, acWriteTo>>
     ELSE IF r.id \notin acPeers
     THEN /\ acRun' = "write"
          /\ acWriteTo' = c
          /\ UNCHANGED <<acReq, acPeers>>
     ELSE /\ acReq' = [acReq EXCEPT ![c] = NoActorReq]
          /\ UNCHANGED <<acPeers, acRun, acWriteTo>>
  /\ UNCHANGED <<acStalled, acErrors>>
  /\ UNCHANGED nonActor

\* req.sender.WriteJSON returns: the frame was written, or the write deadline
\* writeWait passed on a socket that does not drain; req.resp <- error
AcWriteReturn ==
  /\ acRun = "write"
  /\ acRun' = "select"
  /\ acReq' = [acReq EXCEPT ![acWriteTo] = NoActorReq]
  /\ acWriteTo' = NoConn
  /\ acErrors' = IF acStalled[acWriteTo] THEN acErrors ELSE acErrors \cup {acWriteTo}
  /\ UNCHANGED <<acPeers, acStalled>>
  /\ UNCHANGED nonActor

NextActor ==
  \/ \E c \in Conns : AcRequest(c)
  \/ \E c \in Conns : AcStall(c)
  \/ \E c \in Conns : AcServe(c)
  \/ AcWriteReturn

SpecActor == Init /\ [][NextActor]_vars

\* C24: pm.run is never inside a write on a socket that does not drain while
\* the request of another connection waits for it.
C24_RunNeverWaitsOnSocket ==
  ~ /\ acRun = "write"
    /\ acStalled[acWriteTo]
    /\ \E d \in Conns : d # acWriteTo /\ acReq[d] # NoActorReq

(***************************************************************************)
(* The liveness deadline of a host connection (readPump, writePump)        *)
(***************************************************************************)
nonTimer == <<earlyVars, actorVars, hostVars, lastVars>>

\* how long a host connection is watched
MaxTime == 70

\* one second passes: the host has not been silent for pongWait, the ticker
\* is not due and the pending read has not reached its deadline
TmTick ==
  /\ tmState = "open"
  /\ tmNow < MaxTime
  /\ tmNow < tmDeadline
  /\ tmNow < tmNextPing
  /\ (tmNow + 1) - tmLast < pongWait
  /\ tmNow' = tmNow + 1
  /\ UNCHANGED <<tmDeadline, tmLast, tmNextPing, tmState, tmPonged>>
  /\ UNCHANGED nonTimer

TmEnvelopeRefresh ==
  /\ tmState = "open"
  /\ tmNow < tmDeadline
  /\ tmLast < tmNow
  /\ tmLast' = tmNow
  /\ tmDeadline' = tmNow + pongWait
  /\ UNCHANGED <<tmNow, tmNextPing, tmState, tmPonged>>
  /\ UNCHANGED nonTimer

\* readPump: ReadJSON returns an envelope of the host, which is routed; the
\* read deadline is not touched
TmEnvelope ==
  /\ tmState = "open"
  /\ tmNow < tmDeadline
  /\ tmLast < tmNow
  /\ tmLast' = tmNow
  /\ UNCHANGED <<tmNow, tmDeadline, tmNextPing, tmState, tmPonged>>
  /\ UNCHANGED nonTimer

\* writePump, case ticker.C: a ping is written; a host that answers it makes
\* the pong handler move the read deadline
TmPing ==
  /\ tmState = "open"
  /\ tmNow = tmNextPing
  /\ tmNextPing' = tmNow + pingPeriod
  /\ \E answered \in BOOLEAN :
       IF answered
       THEN /\ tmDeadline' = tmNow + pongWait
            /\ tmLast' = tmNow
            /\ tmPonged' = TRUE
       ELSE UNCHANGED <<tmDeadline, tmLast, tmPonged>>
  /\ UNCHANGED <<tmNow, tmState>>
  /\ UNCHANGED nonTimer

\* readPump: ReadJSON fails on the read deadline and the loop ends
TmLapse ==
  /\ tmState = "open"
  /\ tmNow >= tmDeadline
  /\ tmState' = "lapsed"
  /\ UNCHANGED <<tmNow, tmDeadline, tmLast, tmNextPing, tmPonged>>
  /\ UNCHANGED nonTimer

NextTimer ==
  \/ TmTick
  \/ TmEnvelope
  \/ TmPing
  \/ TmLapse

SpecTimer == Init /\ [][NextTimer]_vars

\* one second passes on a connection that is not a host: no ticker runs, and
\* the pending read has not reached its deadline
TcTick ==
  /\ tmState = "open"
  /\ tmNow < MaxTime
  /\ tmNow < tmDeadline
  /\ tmNow' = tmNow + 1
  /\ UNCHANGED <<tmDeadline, tmLast, tmNextPing, tmState, tmPonged>>
  /\ UNCHANGED nonTimer

\* the peer sends a pong frame nobody asked for: the pong handler moves the
\* read deadline
TcPong ==
  /\ tmState = "open"
  /\ tmNow < tmDeadline
  /\ tmLast < tmNow
  /\ tmLast' = tmNow
  /\ tmDeadline' = tmNow + pongWait
  /\ tmPonged' = TRUE
  /\ UNCHANGED <<tmNow, tmNextPing, tmState>>
  /\ UNCHANGED nonTimer

\* readPump of a connection that is not a host: no writePump, so no ping
NextTimerClient ==
  \/ TcTick
  \/ TmEnvelope
  \/ TcPong
  \/ TmLapse

SpecTimerClient == Init /\ [][NextTimerClient]_vars

\* C36: on a connection that is not a host the read deadline stays at 60 s
\* after the start of readPump until the pong handler runs, whatever envelopes
\* arrive, and without a pong the connection is not open later than that.
C36_ClientClosedBySixty ==
  ~tmPonged =>
    /\ tmDeadline = pongWait
    /\ tmState = "open" => tmNow <= pongWait

\* a client that sent an envelope in the last seconds before the deadline and
\* no pong has lost its connection at 60 s
C36_Witness ==
  /\ ~tmPonged /\ tmState = "lapsed" /\ tmNow = pongWait
  /\ tmLast >= pongWait - 2

\* C25: a registered host from which a frame arrives at intervals shorter
\* than 60 s is never closed for a lapse of the liveness deadline.
C25_FramesKeepHostAlive == tmState # "lapsed"

(***************************************************************************)
(* One host session: wait, handleOffer, handleCandidate (host/host.go)     *)
(***************************************************************************)
nonHost == <<earlyVars, actorVars, timerVars, lastVars>>

\* wait, case p := <-msgChan: the next envelope is an offer or a candidate of
\* a client, and a goroutine is started for it
HostReceive(i) ==
  /\ ~hCancelled
  /\ hStep[i] = "none"
  /\ \A j \in HostMsgIds : j < i => hStep[j] # "none"
  /\ Cardinality({j \in HostMsgIds :
                    hStep[j] \in {"spawned", "answered", "loaded"}}) < MaxTasks
  /\ \E k \in {MessageTypeOffer, MessageTypeCandidate} : \E x \in HostClients :
       \* the clients are interchangeable: "c1" names the one heard first
       /\ x = "c1" \/ \E j \in HostMsgIds : hMsg[j].from = "c1"
       /\ hMsg' = [hMsg EXCEPT ![i] = [kind |-> k, from |-> x]]
  /\ hStep' = [hStep EXCEPT ![i] = "spawned"]
  /\ UNCHANGED <<hTaskPc, hIndex, hPcOwner, hPcState, hPcCb, hApplied>>
  /\ UNCHANGED <<hCancelled, nonHost>>

\* handleOffer up to the return of answer: a peer connection is created for
\* the sender, the answer is sent; on an error the peer connection is closed
OfferAnswer(i) ==
  /\ hStep[i] = "spawned"
  /\ hMsg[i].kind = MessageTypeOffer
  /\ \E p \in Pcs :
       /\ hPcState[p] = "none"
       /\ \A q \in Pcs : q < p => hPcState[q] # "none"
       /\ hPcOwner' = [hPcOwner EXCEPT ![p] = hMsg[i].from]
       /\ hTaskPc' = [hTaskPc EXCEPT ![i] = p]
       /\ \E ok \in BOOLEAN :
            IF ok
            THEN /\ hPcState' = [hPcState EXCEPT ![p] = "new"]
                 /\ hStep' = [hStep EXCEPT ![i] = "answered"]
            ELSE /\ hPcState' = [hPcState EXCEPT ![p] = "closed"]
                 /\ hStep' = [hStep EXCEPT ![i] = "done"]
  /\ UNCHANGED <<hMsg, hIndex, hPcCb, hApplied>>
  /\ UNCHANGED <<hCancelled, nonHost>>

\* handleOffer: peerConnections.Store(clientID, pc) and the installation of
\* the state callback
OfferStore(i) ==
  /\ hStep[i] = "answered"
  /\ hIndex' = [hIndex EXCEPT ![hMsg[i].from] = hTaskPc[i]]
  /\ hPcCb' = [hPcCb EXCEPT ![hTaskPc[i]] = TRUE]
  /\ hStep' = [hStep EXCEPT ![i] = "done"]
  /\ UNCHANGED <<hMsg, hTaskPc, hPcOwner, hPcState, hApplied>>
  /\ UNCHANGED <<hCancelled, nonHost>>

CandidateLoadAny(i) ==
  /\ hStep[i] = "spawned"
  /\ hMsg[i].kind = MessageTypeCandidate
  /\ IF \A x \in HostClients : hIndex[x] = NoPc
     THEN /\ hStep' = [hStep EXCEPT ![i] = "dropped"]
          /\ UNCHANGED hTaskPc
     ELSE /\ hStep' = [hStep EXCEPT ![i] = "loaded"]
          /\ \E x \in HostClients :
               /\ hIndex[x] # NoPc
               /\ hTaskPc' = [hTaskPc EXCEPT ![i] = hIndex[x]]
  /\ UNCHANGED <<hMsg, hIndex, hPcOwner, hPcState, hPcCb, hApplied>>
  /\ UNCHANGED <<hCancelled, nonHost>>

\* handleCandidate: peerConnections.Load(clientID); without an entry the
\* candidate is logged and forgotten
CandidateLoad(i) ==
  /\ hStep[i] = "spawned"
  /\ hMsg[i].kind = MessageTypeCandidate
  /\ IF hIndex[hMsg[i].from] = NoPc
     THEN /\ hStep' = [hStep EXCEPT ![i] = "dropped"]
          /\ UNCHANGED hTaskPc
     ELSE /\ hStep' = [hStep EXCEPT ![i] = "loaded"]
          /\ hTaskPc' = [hTaskPc EXCEPT ![i] = hIndex[hMsg[i].from]]
  /\ UNCHANGED <<hMsg, hIndex, hPcOwner, hPcState, hPcCb, hApplied>>
  /\ UNCHANGED <<hCancelled, nonHost>>

\* handleCandidate: pc.AddICECandidate on the peer connection that was loaded
CandidateAdd(i) ==
  /\ hStep[i] = "loaded"
  /\ hApplied' = [hApplied EXCEPT ![hTaskPc[i]] = @ \cup {i}]
  /\ hStep' = [hStep EXCEPT ![i] = "done"]
  /\ UNCHANGED <<hMsg, hTaskPc, hIndex, hPcOwner, hPcState, hPcCb>>
  /\ UNCHANGED <<hCancelled, nonHost>>

\* the connection states ICE moves a peer connection through; "new" stands for
\* new, connecting and connected, which the callback does not tell apart
PcTransitions ==
  { <<"new", "failed">>, <<"new", "disconnected">>,
    <<"disconnected", "new">>, <<"disconnected", "failed">> }

\* the state of a peer connection changes; the callback of handleOffer, once
\* installed, deletes the entry of its clientID on closed, failed and
\* disconnected
PcStateChange(p) ==
  /\ \E t \in PcTransitions :
       /\ hPcState[p] = t[1]
       /\ hPcState' = [hPcState EXCEPT ![p] = t[2]]
       /\ IF hPcCb[p] /\ t[2] \in {"closed", "failed", "disconnected"}
          THEN hIndex' = [hIndex EXCEPT ![hPcOwner[p]] = NoPc]
          ELSE UNCHANGED hIndex
  /\ UNCHANGED <<hMsg, hStep, hTaskPc, hPcOwner, hPcCb, hApplied>>
  /\ UNCHANGED <<hCancelled, nonHost>>

NextHost ==
  \/ \E i \in HostMsgIds : HostReceive(i)
  \/ \E i \in HostMsgIds : OfferAnswer(i)
  \/ \E i \in HostMsgIds : OfferStore(i)
  \/ \E i \in HostMsgIds : CandidateLoad(i)
  \/ \E i \in HostMsgIds : CandidateAdd(i)
  \/ \E p \in Pcs : PcStateChange(p)

SpecHost == Init /\ [][NextHost]_vars

\* wait, case <-ctx.Done(): every peer connection in peerConnections is closed
\* (the close runs its state callback, which deletes the entry) and wait
\* returns; the goroutines it started are not waited for
HostCancel ==
  /\ ~hCancelled
  /\ hCancelled' = TRUE
  /\ hPcState' = [p \in Pcs |->
                    IF \E x \in HostClients : hIndex[x] = p
                    THEN "closed" ELSE hPcState[p]]
  /\ hIndex' = [x \in HostClients |->
                  IF hIndex[x] # NoPc /\ hPcCb[hIndex[x]] /\ hPcState[hIndex[x]] # "closed"
                  THEN NoPc ELSE hIndex[x]]
  /\ UNCHANGED <<hMsg, hStep, hTaskPc, hPcOwner, hPcCb, hApplied>>
  /\ UNCHANGED nonHost

NextHostStop ==
  \/ NextHost
  \/ HostCancel

\* a host session that the process cancels at some point
SpecHostStop == Init /\ [][NextHostStop]_vars

\* no goroutine of wait is still running
HostTasksDone == \A i \in HostMsgIds : hStep[i] \in {"none", "done", "dropped"}

\* C31: once the host is cancelled and the handlers that were running have
\* returned, every peer connection that was created for an offer is closed.
C31_CancelClosesAll ==
  (hCancelled /\ HostTasksDone) =>
    \A p \in Pcs : hPcState[p] \in {"none", "closed"}

\* C27: no candidate envelope that the host took from the broker after an
\* offer of the same client is forgotten without being applied.
C27_CandidateAfterOfferApplied ==
  \A i \in HostMsgIds :
    (/\ hMsg[i].kind = MessageTypeCandidate
     /\ \E j \in HostMsgIds :
          j < i /\ hMsg[j].kind = MessageTypeOffer /\ hMsg[j].from = hMsg[i].from)
      => hStep[i] # "dropped"

\* C28: the entry of a client is removed only by a state change of the peer
\* connection the entry holds, never by one of an older peer connection of the
\* same client.
C28_OldCallbackKeepsNewEntry ==
  [][\A x \in HostClients :
       (hIndex[x] # NoPc /\ hIndex'[x] = NoPc) =>
         hPcState'[hIndex[x]] # hPcState[hIndex[x]]
    ]_vars

\* C29: a peer connection whose change to failed, closed or disconnected
\* removes an entry from the index is closed when the entry is gone.
C29_RemovedSessionIsClosed ==
  [][\A p \in Pcs :
       (/\ hPcState'[p] # hPcState[p]
        /\ \E x \in HostClients : hIndex[x] # NoPc /\ hIndex'[x] = NoPc)
         => hPcState'[p] = "closed"
    ]_vars

midVars == <<earlyVars, actorVars, timerVars, hostVars>>
nonNeg == <<midVars, proxyVars, managerVars, handleVars>>

\* candidates of the host that reach the client in one handshake
MaxCands == 2

\* the connection states of the client's peer connection; "new" stands for
\* new and connecting
NgTransitions ==
  { <<"new", "connected">>, <<"new", "failed">>, <<"connected", "disconnected">>,
    <<"connected", "failed">>, <<"disconnected", "connected">>,
    <<"disconnected", "failed">> }

\* the OnConnectionStateChange callback of negotiate, run for state st with
\* n executions of close(connected) so far: on connected the channel is closed
\* unconditionally, on failed and closed only if it is not closed yet
OnConnectionStateChange(n, st) ==
  IF st = "connected" THEN n + 1
  ELSE IF st \in {"failed", "closed"} THEN (IF n = 0 THEN 1 ELSE n)
  ELSE n

\* close(connected) on the closed channel: the process has panicked
NgPanicked == ngCloses >= 2

\* pc.Close(): the state becomes closed and the callback runs for it
PcClose ==
  IF ngState = "closed"
  THEN UNCHANGED <<ngState, ngCloses>>
  ELSE /\ ngState' = "closed"
       /\ ngCloses' = OnConnectionStateChange(ngCloses, "closed")

\* ICE or DTLS moves the peer connection to another state; connected needs
\* the answer of the host
NgStateChange ==
  /\ ~NgPanicked
  /\ \E t \in NgTransitions :
       /\ ngState = t[1]
       /\ (t[1] = "new" /\ t[2] = "connected") => ngRemote
       /\ ngState' = t[2]
       /\ ngCloses' = OnConnectionStateChange(ngCloses, t[2])
       /\ ngFirst' = IF ngFirst = "none" /\ t[2] = "connected"
                     THEN "connected" ELSE ngFirst
  /\ UNCHANGED <<ngPc, ngTimeout, ngReader, ngRemote, ngCands>>
  /\ UNCHANGED nonNeg

\* cfg.Timeout seconds have passed since context.WithTimeout
NgTimeoutElapses ==
  /\ ~NgPanicked
  /\ ~ngTimeout
  /\ ngTimeout' = TRUE
  /\ ngFirst' = IF ngFirst = "none" THEN "timeout" ELSE ngFirst
  /\ UNCHANGED <<ngPc, ngState, ngCloses, ngReader, ngRemote, ngCands>>
  /\ UNCHANGED nonNeg

\* negotiate, case <-connected
NgSelectConnected ==
  /\ ~NgPanicked
  /\ ngPc = "select"
  /\ ngCloses >= 1
  /\ ngPc' = "check"
  /\ UNCHANGED <<ngState, ngCloses, ngTimeout, ngFirst, ngReader, ngRemote, ngCands>>
  /\ UNCHANGED nonNeg

NgSelectTimeoutKeep ==
  /\ ~NgPanicked
  /\ ngPc = "select"
  /\ ngTimeout
  /\ ngPc' = "timeout"
  /\ UNCHANGED <<ngState, ngCloses>>
  /\ UNCHANGED <<ngTimeout, ngFirst, ngReader, ngRemote, ngCands>>
  /\ UNCHANGED nonNeg

\* negotiate, case <-timeout.Done(): pc.Close() and the timeout error
NgSelectTimeout ==
  /\ ~NgPanicked
  /\ ngPc = "select"
  /\ ngTimeout
  /\ ngPc' = "timeout"
  /\ PcClose
  /\ UNCHANGED <<ngTimeout, ngFirst, ngReader, ngRemote, ngCands>>
  /\ UNCHANGED nonNeg

\* negotiate after <-connected: pc and dc are returned if the state is
\* connected now, an error otherwise
NgCheck ==
  /\ ~NgPanicked
  /\ ngPc = "check"
  /\ ngPc' = IF ngState = "connected" THEN "ok" ELSE "failed"
  /\ UNCHANGED <<ngState, ngCloses, ngTimeout, ngFirst, ngReader, ngRemote, ngCands>>
  /\ UNCHANGED nonNeg

\* the reader goroutine: the answer arrives, pc.SetRemoteDescription
NgReadAnswer ==
  /\ ~NgPanicked
  /\ ngReader = "read"
  /\ ~ngRemote
  /\ ngRemote' = TRUE
  /\ UNCHANGED <<ngPc, ngState, ngCloses, ngTimeout, ngFirst, ngReader, ngCands>>
  /\ UNCHANGED nonNeg

\* the reader goroutine: a candidate arrives, pc.AddICECandidate
NgReadCandidate ==
  /\ ~NgPanicked
  /\ ngReader = "read"
  /\ ngCands < MaxCands
  /\ ngCands' = ngCands + 1
  /\ UNCHANGED <<ngPc, ngState, ngCloses, ngTimeout, ngFirst, ngReader, ngRemote>>
  /\ UNCHANGED nonNeg

\* the reader goroutine: wsc.ReadMessage fails; pc.Close() and return
NgReadError ==
  /\ ~NgPanicked
  /\ ngReader = "read"
  /\ ngReader' = "done"
  /\ PcClose
  /\ UNCHANGED <<ngPc, ngTimeout, ngFirst, ngRemote, ngCands>>
  /\ UNCHANGED nonNeg

NextNeg ==
  \/ NgStateChange
  \/ NgTimeoutElapses
  \/ NgSelectConnected
  \/ NgSelectTimeout
  \/ NgCheck
  \/ NgReadAnswer
  \/ NgReadCandidate
  \/ NgReadError

SpecNeg == Init /\ [][NextNeg]_vars

\* negotiate has returned
NgReturned == ngPc \in {"ok", "failed", "timeout"}

C33_ConnectedClosedOnce == ngCloses <= 1

(***************************************************************************)
(* The datagram bridges: BridgePacket and the two proxyTrafficUDP          *)
(***************************************************************************)
nonProxy == <<midVars, negVars, managerVars, handleVars>>

\* the first failure of the bridge is remembered
FirstFail(f) == IF pxFail = "none" THEN f ELSE pxFail

\* the data channel is open: the bridge starts its pump goroutine and installs
\* its handlers
PxStart(k) ==
  /\ pxKind = NoBridge
  /\ pxKind' = k
  /\ pxLoop' = "read"
  /\ UNCHANGED <<pxLocal, pxDc, pxFail, pxN, pxM>>
  /\ UNCHANGED nonProxy

\* pconn.ReadFrom / conn.Read returns a datagram
PxRead ==
  /\ pxLoop = "read"
  /\ pxLocal = "open"
  /\ pxN < MaxPkts
  /\ pxLoop' = "send"
  /\ pxN' = pxN + 1
  /\ UNCHANGED <<pxKind, pxLocal, pxDc, pxFail, pxM>>
  /\ UNCHANGED nonProxy

\* the read on the local endpoint fails: BridgePacket runs closer(), the
\* host's proxy closes conn and dc, the client's proxy only returns
PxReadError ==
  /\ pxLoop = "read"
  /\ pxLoop' = "done"
  /\ pxFail' = FirstFail("read")
  /\ IF pxKind \in {BridgePacketKind, HostUDP}
     THEN pxLocal' = "closed" /\ pxDc' = "closed"
     ELSE UNCHANGED <<pxLocal, pxDc>>
  /\ UNCHANGED <<pxKind, pxN, pxM>>
  /\ UNCHANGED nonProxy

\* dc.Send succeeds
PxSend ==
  /\ pxLoop = "send"
  /\ pxDc = "open"
  /\ pxLoop' = "read"
  /\ UNCHANGED <<pxKind, pxLocal, pxDc, pxFail, pxN, pxM>>
  /\ UNCHANGED nonProxy

\* dc.Send fails: BridgePacket runs closer(), the two proxies only return
PxSendError ==
  /\ pxLoop = "send"
  /\ pxLoop' = "done"
  /\ pxFail' = FirstFail("send")
  /\ IF pxKind = BridgePacketKind
     THEN pxLocal' = "closed" /\ pxDc' = "closed"
     ELSE UNCHANGED <<pxLocal, pxDc>>
  /\ UNCHANGED <<pxKind, pxN, pxM>>
  /\ UNCHANGED nonProxy

\* the OnMessage handler writes the message to the local endpoint
PxMessage ==
  /\ pxKind # NoBridge
  /\ pxDc = "open"
  /\ pxLocal = "open"
  /\ pxM < MaxMsgs
  /\ pxM' = pxM + 1
  /\ UNCHANGED <<pxKind, pxLoop, pxLocal, pxDc, pxFail, pxN>>
  /\ UNCHANGED nonProxy

\* the OnMessage handler: the write to the local endpoint fails (BridgePacket
\* and the client's proxy write only once the return address is known):
\* BridgePacket runs closer(), the two proxies log the error
PxWriteError ==
  /\ pxKind # NoBridge
  /\ pxDc = "open"
  /\ pxM < MaxMsgs
  /\ pxKind \in {BridgePacketKind, ClientUDP} => pxN >= 1
  /\ pxM' = pxM + 1
  /\ pxFail' = FirstFail("write")
  /\ IF pxKind = BridgePacketKind
     THEN pxLocal' = "closed" /\ pxDc' = "closed"
     ELSE UNCHANGED <<pxLocal, pxDc>>
  /\ UNCHANGED <<pxKind, pxLoop, pxN>>
  /\ UNCHANGED nonProxy

\* the remote side closes the data channel; BridgePacket's OnClose handler
\* runs closer(), the two proxies have no OnClose handler
PxDcClose ==
  /\ pxKind # NoBridge
  /\ pxDc = "open"
  /\ pxDc' = "closed"
  /\ pxLocal' = IF pxKind = BridgePacketKind THEN "closed" ELSE pxLocal
  /\ UNCHANGED <<pxKind, pxLoop, pxFail, pxN, pxM>>
  /\ UNCHANGED nonProxy

NextProxy ==
  \/ \E k \in PxKinds : PxStart(k)
  \/ PxRead
  \/ PxReadError
  \/ PxSend
  \/ PxSendError
  \/ PxMessage
  \/ PxWriteError
  \/ PxDcClose

SpecProxy == Init /\ [][NextProxy]_vars

\* C35: once a read or a write on the local endpoint or a send on the data
\* channel has failed, the local endpoint and the data channel are closed,
\* and after a failed read or send the pump loop has stopped.
C35_FailureClosesBoth ==
  pxFail # "none" =>
    /\ pxLocal = "closed" /\ pxDc = "closed"
    /\ pxFail \in {"read", "send"} => pxLoop = "done"

(***************************************************************************)
(* The host's peerConnectionManager: one read loop, callbacks of pion      *)
(***************************************************************************)
nonManager == <<midVars, negVars, proxyVars, handleVars>>

\* handleSignal: ReadMessage returns an offer; handleOffer calls
\* newPeerConnection, which installs the callbacks
HmReadOffer ==
  /\ hmPos = "read"
  /\ hmN < MaxHostMsgs
  /\ \E p \in Pcs :
       /\ hmPc[p] = "none"
       /\ \A q \in Pcs : q < p => hmPc[q] # "none"
       /\ hmPc' = [hmPc EXCEPT ![p] = "live"]
       /\ hmCur' = p
  /\ hmN' = hmN + 1
  /\ hmPos' = "store"
  /\ UNCHANGED <<hmIce, hmIceW>>
  /\ UNCHANGED nonManager

\* handleOffer: m.peerCons[clientID] = pc begins
HmStoreBegin ==
  /\ hmPos = "store"
  /\ hmPos' = "storing"
  /\ UNCHANGED <<hmN, hmCur, hmPc, hmIce, hmIceW>>
  /\ UNCHANGED nonManager

\* the map assignment is done; SetRemoteDescription, CreateAnswer and
\* SetLocalDescription follow, and with the local description set the peer
\* connection starts to gather candidates; on an error handleOffer returns
HmDescribe ==
  /\ hmPos = "storing"
  /\ \E ok \in BOOLEAN :
       IF ok
       THEN /\ hmPos' = "answer"
            /\ hmIce' = [hmIce EXCEPT ![hmCur] = 0]
       ELSE /\ hmPos' = "read"
            /\ UNCHANGED hmIce
  /\ UNCHANGED <<hmN, hmCur, hmPc, hmIceW>>
  /\ UNCHANGED nonManager

\* handleOffer: m.signalConn.WriteJSON(answer) begins
HmAnswerBegin ==
  /\ hmPos = "answer"
  /\ hmPos' = "answering"
  /\ UNCHANGED <<hmN, hmCur, hmPc, hmIce, hmIceW>>
  /\ UNCHANGED nonManager

\* WriteJSON returns and the loop reads again
HmAnswerEnd ==
  /\ hmPos = "answering"
  /\ hmPos' = "read"
  /\ UNCHANGED <<hmN, hmCur, hmPc, hmIce, hmIceW>>
  /\ UNCHANGED nonManager

\* handleSignal: ReadMessage returns a candidate; handleCandidate begins its
\* lookup m.peerCons[clientID]
HmReadCandidate ==
  /\ hmPos = "read"
  /\ hmN < MaxHostMsgs
  /\ hmN' = hmN + 1
  /\ hmPos' = "looking"
  /\ UNCHANGED <<hmCur, hmPc, hmIce, hmIceW>>
  /\ UNCHANGED nonManager

\* the lookup is done; AddICECandidate, and the loop reads again
HmLookupEnd ==
  /\ hmPos = "looking"
  /\ hmPos' = "read"
  /\ UNCHANGED <<hmN, hmCur, hmPc, hmIce, hmIceW>>
  /\ UNCHANGED nonManager

\* the OnICECandidate callback of a gathering peer connection, called by
\* pion: m.signalConn.WriteJSON(candidate) begins
HmIceBegin(p) ==
  /\ hmIce[p] >= 0
  /\ hmIce[p] < MaxCands
  /\ ~hmIceW[p]
  /\ hmIceW' = [hmIceW EXCEPT ![p] = TRUE]
  /\ UNCHANGED <<hmPos, hmN, hmCur, hmPc, hmIce>>
  /\ UNCHANGED nonManager

\* WriteJSON returns in the callback
HmIceEnd(p) ==
  /\ hmIceW[p]
  /\ hmIceW' = [hmIceW EXCEPT ![p] = FALSE]
  /\ hmIce' = [hmIce EXCEPT ![p] = @ + 1]
  /\ UNCHANGED <<hmPos, hmN, hmCur, hmPc>>
  /\ UNCHANGED nonManager

\* the peer connection, its ICE agent started, fails: pion calls the
\* OnConnectionStateChange callback
HmPcFails(p) ==
  /\ hmPc[p] = "live"
  /\ hmIce[p] >= 0
  /\ hmPc' = [hmPc EXCEPT ![p] = "failed"]
  /\ UNCHANGED <<hmPos, hmN, hmCur, hmIce, hmIceW>>
  /\ UNCHANGED nonManager

\* the callback: pc.Close(), then delete(m.peerCons, clientID) begins
HmDeleteBegin(p) ==
  /\ hmPc[p] = "failed"
  /\ hmPc' = [hmPc EXCEPT ![p] = "deleting"]
  /\ UNCHANGED <<hmPos, hmN, hmCur, hmIce, hmIceW>>
  /\ UNCHANGED nonManager

\* the delete is done
HmDeleteEnd(p) ==
  /\ hmPc[p] = "deleting"
  /\ hmPc' = [hmPc EXCEPT ![p] = "gone"]
  /\ UNCHANGED <<hmPos, hmN, hmCur, hmIce, hmIceW>>
  /\ UNCHANGED nonManager

NextManager ==
  \/ HmReadOffer
  \/ HmStoreBegin
  \/ HmDescribe
  \/ HmAnswerBegin
  \/ HmAnswerEnd
  \/ HmReadCandidate
  \/ HmLookupEnd
  \/ \E p \in Pcs : HmIceBegin(p)
  \/ \E p \in Pcs : HmIceEnd(p)
  \/ \E p \in Pcs : HmPcFails(p)
  \/ \E p \in Pcs : HmDeleteBegin(p)
  \/ \E p \in Pcs : HmDeleteEnd(p)

SpecManager == Init /\ [][NextManager]_vars

\* the tasks that are inside signalConn.WriteJSON: the read loop (0) and the
\* candidate callbacks of the peer connections
SignalWriters ==
  (IF hmPos = "answering" THEN {0} ELSE {}) \cup {p \in Pcs : hmIceW[p]}

\* the tasks that are inside an operation on m.peerCons: the read loop (0)
\* and the state callbacks of the peer connections
IndexUsers ==
  (IF hmPos \in {"storing", "looking"} THEN {0} ELSE {}) \cup
  {p \in Pcs : hmPc[p] = "deleting"}

\* C38: at most one task of the host is inside a write to the broker
\* connection.
C38_OneSignalWriter == Cardinality(SignalWriters) <= 1

\* C40: at most one task is inside an operation on the session index.
C40_IndexNotShared == Cardinality(IndexUsers) <= 1

(***************************************************************************)
(* The broker of HandleConnection: a concurrent map of identities          *)
(***************************************************************************)
nonHandle == <<midVars, negVars, proxyVars, managerVars>>

\* HandleConnection: ReadJSON of the initial message fails, or its senderID
\* is empty: the connection is closed and nothing is registered
HcReject(c) ==
  /\ hcState[c] = "new"
  /\ hcState' = [hcState EXCEPT ![c] = "closed"]
  /\ UNCHANGED <<hcId, connM, hcGot>>
  /\ UNCHANGED nonHandle

\* HandleConnection: the initial message names senderID;
\* connM.Set(senderID, conn) puts the entry, over any entry of the identity.
\* The initial message, if it has a target, is forwarded as any later one
\* (HcForward).
HcRegister(c, senderID) ==
  /\ hcState[c] = "new"
  /\ hcState' = [hcState EXCEPT ![c] = "open"]
  /\ hcId' = [hcId EXCEPT ![c] = senderID]
  /\ connM' = [connM EXCEPT ![senderID] = c]
  /\ UNCHANGED hcGot
  /\ UNCHANGED nonHandle

\* forwardMessage, called by the handler of c: an empty target or a target
\* without entry drops the message; else WriteJSON on the connection of the
\* entry, an error of which is only logged
HcForward(c, targetID) ==
  /\ hcState[c] = "open"
  /\ IF targetID \in IDs /\ connM[targetID] # NoConn
        /\ hcState[connM[targetID]] = "open"
     THEN /\ hcGot[connM[targetID]] < MaxMsgs
          /\ hcGot' = [hcGot EXCEPT ![connM[targetID]] = @ + 1]
     ELSE UNCHANGED hcGot
  /\ UNCHANGED <<hcState, hcId, connM>>
  /\ UNCHANGED nonHandle

\* HandleConnection: ReadMessage fails and the loop breaks; the deferred
\* function runs connM.Remove(senderID) and conn.Close()
HcClose(c) ==
  /\ hcState[c] = "open"
  /\ connM' = [connM EXCEPT ![hcId[c]] = NoConn]
  /\ hcState' = [hcState EXCEPT ![c] = "closed"]
  /\ UNCHANGED <<hcId, hcGot>>
  /\ UNCHANGED nonHandle

NextHandle ==
  \/ \E c \in Sockets : HcReject(c)
  \/ \E c \in Sockets, i \in IDs : HcRegister(c, i)
  \/ \E c \in Sockets, t \in IDs \cup {""} : HcForward(c, t)
  \/ \E c \in Sockets : HcClose(c)

SpecHandle == Init /\ [][NextHandle]_vars

\* C39: an entry leaves the registry only when the connection it maps to
\* closes; the close of another connection never removes it.
C39_RemovesOwnEntry ==
  [][\A i \in IDs :
       (connM[i] # NoConn /\ connM'[i] = NoConn) =>
         (hcState[connM[i]] = "open" /\ hcState'[connM[i]] = "closed")]_vars

(***************************************************************************)
(* Claims about the broker                                                 *)
(***************************************************************************)
\* the connection holds a safeConnection whose queue the peerManager has not closed
Registered(c) == sendState[c] = "open"

\* C1: no two connections are registered as host under the same identity at
\* the same time, and each registered connection is the registry's entry for
\* its identity.
C1_OneEntryPerIdentity ==
  /\ \A c1, c2 \in Conns :
       Registered(c1) /\ Registered(c2) /\ connID[c1] = connID[c2] => c1 = c2
  /\ \A c \in Conns : Registered(c) => Lookup(connID[c]) = c

\* a second registration for an identity was attempted while its entry existed
C1_Witness ==
  \E r \in rejected : \E c \in Conns :
    c # r /\ Registered(c) /\ connID[c] = connID[r] /\ Lookup(connID[r]) = c

\* C2: a register for an identity that already has an entry closes the new
\* connection without creating or replacing an entry and leaves the
\* incumbent's entry, queue, write worker and socket as they were; an envelope
\* routed to that identity afterwards is queued for the incumbent.
C2_DuplicateRejected ==
  [][\A c \in Conns :
       /\ (cstate[c] = "addWait" /\ cstate'[c] # "addWait" /\ Lookup(connID[c]) # NoConn) =>
            LET inc == Lookup(connID[c]) IN
              /\ cstate'[c] = "done"
              /\ ~sockOpen'[c]
              /\ ~isHost'[c]
              /\ sendState'[c] = "none"
              /\ peers' = peers
              /\ send'[inc] = send[inc]
              /\ sendState'[inc] = sendState[inc]
              /\ wp'[inc] = wp[inc]
              /\ sockOpen'[inc] = sockOpen[inc]
       /\ (/\ cstate[c] = "routeWait" /\ cstate'[c] = "read"
           /\ \E r \in rejected : connID[r] = pending[c].msg.TargetID
           /\ Lookup(pending[c].msg.TargetID) # NoConn
           /\ Len(send[Lookup(pending[c].msg.TargetID)]) < SendCap) =>
            LET inc == Lookup(pending[c].msg.TargetID) IN
              /\ inc \notin rejected
              /\ Len(send'[inc]) = Len(send[inc]) + 1
              /\ Unmarshal(send'[inc][Len(send'[inc])].b) = pending[c].msg
    ]_vars

\* after a duplicate was refused, an envelope routed to the identity was
\* written to the incumbent's socket
C2_Witness ==
  \E r \in rejected : \E c \in Conns :
    /\ c # r /\ Lookup(connID[r]) = c
    /\ \E i \in 1..Len(wire[c]) : wire[c][i].by = "pump" /\ wire[c][i].ok /\ wire[c][i].dup

C4_AnswerReachesClient ==
  [][\A h \in Conns : \A cl \in Conns :
       (/\ cstate[h] = "routeWait" /\ cstate'[h] = "read"
        /\ Registered(h)
        /\ pending[h].msg.Type \in {MessageTypeAnswer, MessageTypeCandidate}
        /\ ~isHost[cl] /\ sockOpen[cl] /\ offered[cl] = h
        /\ connID[cl] # ""
        /\ pending[h].msg.TargetID = connID[cl]) =>
         \/ /\ Len(wire'[cl]) = Len(wire[cl]) + 1
            /\ Unmarshal(wire'[cl][Len(wire'[cl])].frame) = pending[h].msg
         \/ /\ Len(send'[cl]) = Len(send[cl]) + 1
            /\ Unmarshal(send'[cl][Len(send'[cl])].b) = pending[h].msg
    ]_vars

\* C5: routing an envelope whose target has no registry entry writes exactly
\* one error envelope, addressed to the envelope's sender_id, on the connection
\* it came from, writes nothing on any other connection and leaves the
\* registry and every outbound queue unchanged.
C5_UnknownTargetError ==
  [][\A c \in Conns :
       (/\ cstate[c] = "routeWait" /\ cstate'[c] = "read"
        /\ pending[c].msg.TargetID # ""
        /\ Lookup(pending[c].msg.TargetID) = NoConn) =>
         /\ Len(wire'[c]) = Len(wire[c]) + 1
         /\ SubSeq(wire'[c], 1, Len(wire[c])) = wire[c]
         /\ LET rec == wire'[c][Len(wire'[c])] IN
              /\ rec.by = "run"
              /\ rec.ok = sockOpen[c]
              /\ Unmarshal(rec.frame).Type = MessageTypeError
              /\ Unmarshal(rec.frame).TargetID = pending[c].msg.SenderID
         /\ \A d \in Conns \ {c} : wire'[d] = wire[d]
         /\ peers' = peers
         /\ send' = send
         /\ sendState' = sendState
    ]_vars

\* an error envelope was delivered to a sender whose target was unknown
C5_Witness ==
  \E c \in Conns : \E i \in 1..Len(wire[c]) :
    /\ wire[c][i].by = "run" /\ wire[c][i].ok
    /\ Unmarshal(wire[c][i].frame).Type = MessageTypeError
    /\ Unmarshal(wire[c][i].orig).TargetID \in IDs

\* C6: once a registered host's connection is closed by the host, the
\* identity's entry is eventually evicted, and a register for an identity
\* without an entry always succeeds.
C6_ReRegisterAfterClose ==
  /\ \A c \in Conns :
       (Registered(c) /\ peerClosed[c]) ~> (Lookup(connID[c]) # c /\ ~Registered(c))
  /\ [][\A c \in Conns :
          (cstate[c] = "addWait" /\ cstate'[c] # "addWait" /\ Lookup(connID[c]) = NoConn) =>
            /\ peers'[connID[c]] = c
            /\ Registered(c)'
            /\ cstate'[c] = "read"
            /\ sockOpen'[c]
      ]_vars

\* a host closed its connection, its entry was evicted, and a later connection
\* registered the same identity
C6_Witness ==
  \E c, d \in Conns :
    /\ c # d /\ connID[c] = connID[d]
    /\ isHost[c] /\ peerClosed[c] /\ cstate[c] = "done" /\ connID[c] \in evicted
    /\ Registered(d) /\ Lookup(connID[d]) = d
\* C16: an envelope with an empty target_id that is handed to the router is
\* queued for nobody and makes the router write one error envelope on the
\* connection it came from.
C16_EmptyTargetError ==
  [][\A c \in Conns :
       (cstate[c] = "routeWait" /\ pending[c].msg.TargetID = "" /\ cstate'[c] # "routeWait")
         => /\ send' = send
            /\ Len(wire'[c]) = Len(wire[c]) + 1
            /\ wire'[c][Len(wire'[c])].frame.type = MessageTypeError]_vars

\* C17: an envelope longer than maxMessageSize is never handed to the router,
\* queued or written, whichever read of its connection it arrives on.
C17_OversizeNeverRouted ==
  \A c \in Conns :
    /\ FrameSize(pending[c].orig) <= maxMessageSize
    /\ \A i \in 1..Len(send[c]) : FrameSize(send[c][i].orig) <= maxMessageSize
    /\ \A i \in 1..Len(wire[c]) : FrameSize(wire[c][i].orig) <= maxMessageSize

\* C19: every frame written on the connection of a registered host is written
\* by that host's write worker.
C19_SingleWriter ==
  \A c \in Conns :
    isHost[c] => \A i \in 1..Len(wire[c]) : wire[c][i].by = "pump"

\* C21: for a connection promoted to host, a failed read (error or lapsed
\* deadline) or a failed write of its write worker leads to a state where the
\* registry holds no entry of the connection, its write worker has stopped
\* and its socket is closed.
C21_HostFailureCleansUp ==
  \A c \in Conns :
    (isHost[c] /\ (cstate[c] = "removeWait" \/ wp[c] = "stopped"))
      ~> (Lookup(connID[c]) # c /\ wp[c] = "stopped" /\ ~sockOpen[c])

\* a host that had an envelope written by its worker failed, was evicted, its
\* worker stopped and its socket closed
C21_Witness ==
  \E c \in Conns :
    /\ isHost[c] /\ cstate[c] = "done" /\ connID[c] \in evicted
    /\ Lookup(connID[c]) # c /\ wp[c] = "stopped" /\ ~sockOpen[c]
    /\ \E i \in 1..Len(wire[c]) : wire[c][i].by = "pump"

\* C22: when the router serves an envelope whose target is a registered host
\* with a full outbound queue, the sender's handler goes back to reading, and
\* neither the queues, the registry, the write workers, the sockets nor the
\* frames written on any connection change: only that envelope is lost and
\* nothing is sent to the sender.
C22_FullQueueDropsOne ==
  [][\A c \in Conns :
       LET target == Lookup(pending[c].msg.TargetID) IN
       (/\ cstate[c] = "routeWait" /\ cstate'[c] # "routeWait"
        /\ target # NoConn /\ Len(send[target]) = SendCap)
         => /\ cstate'[c] = "read"
            /\ send' = send /\ sendState' = sendState /\ peers' = peers
            /\ wp' = wp /\ sockOpen' = sockOpen /\ wire' = wire
    ]_vars

\* an envelope was dropped at the full queue of a host, the queue still holds
\* the envelope enqueued before it, and the sender is reading again
C22_Witness ==
  \E c, h \in Conns :
    /\ c \in dropped /\ cstate[c] = "read" /\ wire[c] = <<>>
    /\ Registered(h) /\ Len(send[h]) = SendCap

\* the frames the write worker has written on a connection, in order
PumpWrites(w) == SelectSeq(w, LAMBDA e : e.by = "pump")

RoleFixedByFirstEnvelope ==
  \A c \in Conns :
    /\ (isHost'[c] /\ ~isHost[c]) =>
         /\ cstate[c] = "addWait" /\ connID[c] # ""
         /\ Lookup(connID[c]) = NoConn /\ peers'[connID[c]] = c
    /\ (cstate'[c] = "addWait" /\ cstate[c] # "addWait") => cstate[c] = "first"
    /\ (cstate[c] = "first" /\ cstate'[c] = "addWait") =>
         pending'[c] = NoReq
    /\ (cstate[c] = "first" /\ cstate'[c] = "routeWait") =>
         /\ pending'[c].orig.type # MessageTypeRegisterHost
         /\ pending'[c].msg = Unmarshal(pending'[c].orig)
    /\ (~isHost[c] /\ cstate[c] \in {"routeWait", "read", "done"}) =>
         /\ ~isHost'[c]
         /\ \A i \in IDs : peers'[i] # c

\* C26: a connection becomes a registered host only through a first envelope
\* that is a register with a non-empty sender_id that has no registry entry; a
\* first register that is refused (empty sender_id, identity already
\* registered) closes the connection without being routed; a first envelope
\* of any other type is routed like a later one, and such a connection never
\* gets a registry entry, even if it sends a register envelope later.
C26_RoleFixedByFirstEnvelope ==
  [][/\ RoleFixedByFirstEnvelope
     /\ \A c \in Conns :
          (cstate'[c] = "done" /\ cstate[c] \in {"first", "addWait"}) =>
            /\ ~isHost'[c] /\ ~sockOpen'[c]
            /\ send' = send /\ wire' = wire
    ]_vars

\* C26 as stated: every first envelope that does not make the connection a
\* registered host is routed.
C26_FirstEnvelopeHostOrRouted ==
  [][/\ RoleFixedByFirstEnvelope
     /\ \A c \in Conns :
          /\ (cstate[c] = "first" /\ cstate'[c] # "first" /\ nread' # nread) =>
               cstate'[c] \in {"addWait", "routeWait"}
          /\ (cstate[c] = "addWait" /\ cstate'[c] # "addWait") =>
               (isHost'[c] \/ cstate'[c] = "routeWait")
    ]_vars

\* a connection whose first envelope was not a register has read a register
\* envelope later, which waits for the router, and has no entry
C26_Witness ==
  \E c \in Conns :
    /\ ~isHost[c] /\ cstate[c] = "routeWait" /\ connID[c] = "c1"
    /\ pending[c].orig.type = MessageTypeRegisterHost
    /\ pending[c].orig.sender_id = "h1"
    /\ Lookup("h1") = NoConn

(***************************************************************************)
(* Either broker: the actor of server/server.go or the mutex-based one     *)
(***************************************************************************)
\* a process runs one of the two peerManager brokers
NextBrokers ==
  \/ InitMutex /\ Next
  \/ InitBroker /\ NextMutex

SpecBrokers == Init /\ [][NextBrokers]_vars

\* C37: the eviction at the end of a host connection's read worker removes no
\* registry entry but the one that holds this very connection, in the actor
\* broker and in the mutex-based broker.
C37_EvictsOwnEntry ==
  [][/\ \A id \in IDs :
          (peers[id] # NoConn /\ peers'[id] # peers[id]) =>
            /\ peers'[id] = NoConn
            /\ cstate[peers[id]] = "removeWait" /\ cstate'[peers[id]] = "done"
            /\ connID[peers[id]] = id
     /\ (mxPeers # NoQueue /\ mxPeers' # mxPeers) =>
          /\ mxPeers' = NoQueue
          /\ mxHost[mxPeers] = "reading" /\ mxHost'[mxPeers] = "done"
          /\ mxSafe[mxPeers] = mxPeers
    ]_vars

\* a host connection was evicted at its end and another connection holds the
\* entry of the same identity now
C37_Witness ==
  \E c, d \in Conns :
    /\ c # d /\ connID[c] = connID[d]
    /\ isHost[c] /\ cstate[c] = "done" /\ connID[c] \in evicted
    /\ Registered(d) /\ Lookup(connID[d]) = d

====
